---- MODULE Spec2Model ----
(***************************************************************************)
(* Model of the label extraction of samaypatel27/fda-automation:           *)
(*   src/daily_automation.py  establishments2, process_xml_file,           *)
(*                            process_all_xml_files                        *)
(*   src/scripts/zip5.py      establishments2,                             *)
(*                            traverse_xmls_and_extract_data               *)
(* and of what runs around it:                                             *)
(*   MainSpec  main of daily_automation.py, zip5.py, truncate_table5.py    *)
(*             with truncate_table5 and insert_to_supabase                 *)
(*   JoinSpec  src/scripts/modify_finaldatabase.py                         *)
(*   ZipSpec   extract_prescription_zips                                   *)
(*   ConcSpec  process_xml_file called from several workers                *)
(* and of the two parts the extraction engine has besides them:            *)
(*   ClassSpec the Activity Classifier                                     *)
(*   Gen1Spec  the Correlator, Algorithm Generation 1                      *)
(* A string is a sequence of one-character strings, so that "" is <<>>,    *)
(* and str.replace and the Python truth test are computed, not assumed.    *)
(***************************************************************************)
EXTENDS Integers, Sequences, FiniteSets, TLC

VARIABLES
    mode,           \* which pipeline runs: "daily" or "zip5"
    xml_files,      \* the *.xml files of the directory, in glob order
    i,              \* position of the for loop over xml_files
    pc,             \* control point of the running pipeline
    tree,           \* the parsed tree of the current file
    establishments, \* establishments2: the nodes matched by the fixed path
    count,          \* establishments2: local count
    estab_list,     \* establishments2: local estab_list
    estab_data,     \* the list establishments2 returned
    r,              \* position of the for loop over estab_data
    records,        \* process_xml_file: local records
    all_records,    \* all_records (daily) / ndc_duns_list (zip5)
    contrib         \* per file, the records of it that reached all_records

VARIABLES
    script,         \* the main that runs: "daily", "zip5", "truncate"
    mpc,            \* control point of main
    work_dir,       \* whether the temporary work directory exists
    idx,            \* position of the loop over DOWNLOAD_FILES
    downloads_dir,  \* the files of DOWNLOADS_DIR: <<part, "zip" or "partial">>
    download_count, \* successful_downloads / download_count
    extract_count,  \* successful_extractions / extract_count
    n_dirs,         \* len(prescription_dirs)
    xml_count,      \* xml_count
    main_records,   \* all_records / ndc_duns_data of main
    table5,         \* the rows of table5
    truncated,      \* what truncate_table5 returned: "none", "True", "False"
    ins_i,          \* insert_to_supabase: i of range(0, len(records), batch_size)
    fb,             \* insert_to_supabase: position of the one-by-one loop
    total_inserted, \* insert_to_supabase: total_inserted
    sent,           \* the insert requests made so far
    exc,            \* the exception in flight in main, after the ones it replaced
    rm_failed       \* whether a shutil.rmtree of the work directory raised

VARIABLES
    table7,          \* the rows of table7
    joon_ndc_data,   \* the rows of joon_ndc_data
    jpc,             \* control point of main of modify_finaldatabase.py
    table5_data,     \* insert_matched_data_to_joon_ndc_data: table5_data
    table7_data,     \* insert_matched_data_to_joon_ndc_data: table7_data
    offset,          \* insert_matched_data_to_joon_ndc_data: offset
    table7_by_duns,  \* insert_matched_data_to_joon_ndc_data: the dictionary
    jk,              \* position of the for loop the function is in
    matched_records, \* insert_matched_data_to_joon_ndc_data: matched_records
    jresult          \* what the function returned: "none", "True", "False"

VARIABLES
    prescription_dirs, \* the argument of extract_prescription_zips
    zpc,               \* control point of extract_prescription_zips
    zd,                \* position of the loop over prescription_dirs
    zz,                \* position of the loop over zip_files
    zx,                \* position of the loop over xml_files_in_zip
    xml_output_dir,    \* XML_OUTPUT_DIR: file name -> the XML copied last
    total_xml_count,   \* total_xml_count
    overwrote          \* whether a copy replaced a file copied earlier

VARIABLES
    documents,      \* the documents handed to the workers
    next_doc,       \* how many documents were handed out
    frames,         \* per worker, the locals of its process_xml_file call
    results         \* per document, the records its call returned

VARIABLES
    act_label,       \* Activity Classifier: the display label it is given
    verdict,         \* Activity Classifier: "none", "true", "false"
    organizations,   \* Generation 1: the OrganizationCandidates of the document
    products,        \* Generation 1: the ProductCandidates of the document
    gpc,             \* control point of the Generation 1 correlator
    manufacturers,   \* Generation 1: the manufacturer list
    gp,              \* Generation 1: position in the ProductCandidates
    ndc_map,         \* Generation 1: the output, a mapping keyed by NDC
    emits            \* every mapping the correlator emitted, in order

extractVars == <<mode, xml_files, i, pc, tree, establishments, count,
                 estab_list, estab_data, r, records, all_records, contrib>>

mainVars == <<script, mpc, work_dir, idx, downloads_dir, download_count,
              extract_count, n_dirs, xml_count, main_records, table5,
              truncated, ins_i, fb, total_inserted, sent, exc, rm_failed>>

joinVars == <<table7, joon_ndc_data, jpc, table5_data, table7_data, offset,
              table7_by_duns, jk, matched_records, jresult>>

zipVars == <<prescription_dirs, zpc, zd, zz, zx, xml_output_dir,
             total_xml_count, overwrote>>

concVars == <<documents, next_doc, frames, results>>

genVars == <<act_label, verdict, organizations, products, gpc, manufacturers,
             gp, ndc_map, emits>>

vars == <<extractVars, mainVars, joinVars, zipVars, concVars, genVars>>

\* what the steps of each part leave alone
others == <<mainVars, joinVars, zipVars, concVars, genVars>>
mainOthers == <<extractVars, joinVars, zipVars, concVars, genVars>>
joinOthers == <<extractVars, mainVars, zipVars, concVars, genVars>>
zipOthers == <<extractVars, mainVars, joinVars, concVars, genVars>>
concOthers == <<extractVars, mainVars, joinVars, zipVars, genVars>>
genOthers == <<extractVars, mainVars, joinVars, zipVars, concVars>>

\* the extraction is not running
ExtractIdle ==
    /\ mode = "idle"
    /\ xml_files = <<>>
    /\ i = 0
    /\ pc = "idle"
    /\ tree = <<>>
    /\ establishments = <<>>
    /\ count = 0
    /\ estab_list = <<>>
    /\ estab_data = <<>>
    /\ r = 0
    /\ records = <<>>
    /\ all_records = <<>>
    /\ contrib = <<>>

MainIdle ==
    /\ script = "idle"
    /\ mpc = "idle"
    /\ work_dir = FALSE
    /\ idx = 0
    /\ downloads_dir = {}
    /\ download_count = 0
    /\ extract_count = 0
    /\ n_dirs = 0
    /\ xml_count = 0
    /\ main_records = <<>>
    /\ table5 = <<>>
    /\ truncated = "none"
    /\ ins_i = 0
    /\ fb = 0
    /\ total_inserted = 0
    /\ sent = <<>>
    /\ exc = <<>>
    /\ rm_failed = FALSE

\* main of modify_finaldatabase.py is not running
JoinIdle ==
    /\ table7 = <<>>
    /\ joon_ndc_data = <<>>
    /\ jpc = "idle"
    /\ table5_data = <<>>
    /\ table7_data = <<>>
    /\ offset = 0
    /\ table7_by_duns = <<>>
    /\ jk = 0
    /\ matched_records = <<>>
    /\ jresult = "none"

\* extract_prescription_zips is not running
ZipIdle ==
    /\ prescription_dirs = <<>>
    /\ zpc = "idle"
    /\ zd = 0
    /\ zz = 0
    /\ zx = 0
    /\ xml_output_dir = <<>>
    /\ total_xml_count = 0
    /\ overwrote = FALSE

\* no worker is running
ConcIdle ==
    /\ documents = <<>>
    /\ next_doc = 0
    /\ frames = <<>>
    /\ results = <<>>

\* the Activity Classifier has not been called
ClassIdle == act_label = <<>> /\ verdict = "none"

\* the Generation 1 correlator does not run
Gen1Idle ==
    /\ organizations = <<>>
    /\ products = <<>>
    /\ gpc = "idle"
    /\ manufacturers = <<>>
    /\ gp = 0
    /\ ndc_map = <<>>
    /\ emits = <<>>

GenIdle == ClassIdle /\ Gen1Idle

OthersIdle == MainIdle /\ JoinIdle /\ ZipIdle /\ ConcIdle /\ GenIdle

----------------------------------------------------------------------------
(* Bounds of the model *)

MaxNodes == 6

MaxFiles == 2

----------------------------------------------------------------------------
(* Values *)

\* Python None (also: an attribute the element does not carry)
None == <<"<None>">>

\* the sentinel string "n/a" of establishments2
NA == <<"n", "/", "a">>

MANUFACTURE == <<"M", "A", "N", "U", "F", "A", "C", "T", "U", "R", "E">>

manufacture == <<"m", "a", "n", "u", "f", "a", "c", "t", "u", "r", "e">>

Manufacture == <<"M", "a", "n", "u", "f", "a", "c", "t", "u", "r", "e">>

MANUFACTURE_API == MANUFACTURE \o <<" ", "A", "P", "I">>

PACK == <<"P", "A", "C", "K">>

\* OIDs are only ever compared with each other
DUNS_ROOT == "1.3.6.1.4.1.519.1"

OTHER_ROOT == "2.16.840.1.113883.4.82"

NDC_SYSTEM == "2.16.840.1.113883.6.69"

OTHER_SYSTEM == "2.16.840.1.113883.6.1"

\* the tags from the document element down to an establishment node
EstabPath == <<"author", "assignedEntity", "representedOrganization",
               "assignedEntity", "assignedOrganization", "assignedEntity">>

\* the authoring organization itself, which the fixed path does not match
AuthorOrgPath == <<"author", "assignedEntity", "representedOrganization">>

\* Python truth value of an Optional[str]
Truthy(v) == v # None /\ v # <<>>

NotDash(c) == c # "-"

\* str.replace("-", "")
ReplaceDash(s) == SelectSeq(s, NotDash)

----------------------------------------------------------------------------
(* XPath queries over the parsed tree.  A tree is the sequence of its      *)
(* organization nodes in document order; a node is                         *)
(*   [path, name, id, performance]                                         *)
(* name: the texts of its v3:name descendants, id: its v3:id descendants   *)
(* as [root, extension], performance: its performance/actDefinition        *)
(* descendants as [code, product], code: the v3:code children as           *)
(* [displayName, code], product: the code elements under                   *)
(* product/manufacturedProduct/manufacturedMaterialKind as                 *)
(* [codeSystem, code].                                                     *)

OnEstabPath(n) == n.path = EstabPath

HasExtension(x) == x.extension # None

HasDisplayName(x) == x.displayName # None

HasCode(x) == x.code # None

\* //v3:author/v3:assignedEntity/v3:representedOrganization/v3:assignedEntity/
\*    v3:assignedOrganization/v3:assignedEntity
XPathEstablishments(label_xml) == SelectSeq(label_xml, OnEstabPath)

\* .//v3:name
XPathName(estab) == estab.name

\* .//v3:id/@extension
XPathIdExtension(estab) ==
    LET ids == SelectSeq(estab.id, HasExtension)
    IN  [k \in 1..Len(ids) |-> ids[k].extension]

\* .//v3:performance/v3:actDefinition
XPathPerformances(estab) == estab.performance

\* ./v3:code/@displayName
XPathDisplayName(perf) ==
    LET cs == SelectSeq(perf.code, HasDisplayName)
    IN  [k \in 1..Len(cs) |-> cs[k].displayName]

\* ./v3:code/@code
XPathCode(perf) ==
    LET cs == SelectSeq(perf.code, HasCode)
    IN  [k \in 1..Len(cs) |-> cs[k].code]

\* ./v3:product/v3:manufacturedProduct/v3:manufacturedMaterialKind/v3:code/@code
XPathNdc(perf) ==
    LET cs == SelectSeq(perf.product, HasCode)
    IN  [k \in 1..Len(cs) |-> cs[k].code]

\* try: xs[0]  except IndexError: "n/a"
FirstOrNA(xs) == IF xs = <<>> THEN NA ELSE xs[1]

----------------------------------------------------------------------------
(* establishments2 of src/daily_automation.py *)

\* PerfRecords without the else branch: an activity without NDC gives nothing
PerfRecords_SkipsEmpty(cnt, est, est_dun, perf) ==
    LET act      == FirstOrNA(XPathDisplayName(perf))
        act_code == FirstOrNA(XPathCode(perf))
        ndc_list == XPathNdc(perf)
    IN  [k \in 1..Len(ndc_list) |->
            <<cnt, est, est_dun, act, act_code, ndc_list[k]>>]

\* PerfRecords taking ndc_list[0] instead of looping over ndc_list
PerfRecords_FirstNdcOnly(cnt, est, est_dun, perf) ==
    LET act      == FirstOrNA(XPathDisplayName(perf))
        act_code == FirstOrNA(XPathCode(perf))
        ndc_list == XPathNdc(perf)
    IN  IF ndc_list # <<>>
        THEN << <<cnt, est, est_dun, act, act_code, ndc_list[1]>> >>
        ELSE << <<cnt, est, est_dun, act, act_code, NA>> >>

\* the records of one activity (body of "for perf in performances")
PerfRecords(cnt, est, est_dun, perf) ==
    LET act      == FirstOrNA(XPathDisplayName(perf))
        act_code == FirstOrNA(XPathCode(perf))
        ndc_list == XPathNdc(perf)
    IN  IF ndc_list # <<>> /\ Len(ndc_list) > 0
        THEN [k \in 1..Len(ndc_list) |->
                 <<cnt, est, est_dun, act, act_code, ndc_list[k]>>]
        ELSE << <<cnt, est, est_dun, act, act_code, NA>> >>

\* "for perf in performances", from position k on
RECURSIVE ForPerf(_, _, _, _, _)
ForPerf(cnt, est, est_dun, performances, k) ==
    IF k > Len(performances) THEN <<>>
    ELSE PerfRecords(cnt, est, est_dun, performances[k])
         \o ForPerf(cnt, est, est_dun, performances, k + 1)

\* EstabRecords without the else branch: no record without activities
EstabRecords_DropsBare(cnt, estab) ==
    LET est          == IF XPathName(estab) = <<>> THEN NA
                        ELSE XPathName(estab)[1]
        est_dun      == FirstOrNA(XPathIdExtension(estab))
        performances == XPathPerformances(estab)
    IN  ForPerf(cnt, est, est_dun, performances, 1)

\* the records of one establishment (body of "for estab in establishments")
EstabRecords(cnt, estab) ==
    LET est          == IF XPathName(estab) = <<>> THEN NA
                        ELSE XPathName(estab)[1]
        est_dun      == FirstOrNA(XPathIdExtension(estab))
        performances == XPathPerformances(estab)
    IN  IF performances # <<>>
        THEN ForPerf(cnt, est, est_dun, performances, 1)
        ELSE << <<cnt, est, est_dun, NA, NA, NA>> >>

\* the single record of a document without establishments
NoEstabRecord == <<0, NA, NA, NA, NA, NA>>

----------------------------------------------------------------------------
(* establishments2 of src/scripts/zip5.py *)

Zip5PerfRecords(cnt, est, est_dun, perf) ==
    LET act      == FirstOrNA(XPathDisplayName(perf))
        act_code == FirstOrNA(XPathCode(perf))
        ndc      == XPathNdc(perf)
    IN  IF Len(ndc) > 0
        THEN [k \in 1..Len(ndc) |-> <<cnt, est, est_dun, act, act_code, ndc[k]>>]
        ELSE << <<cnt, est, est_dun, act, act_code, NA>> >>

RECURSIVE Zip5ForPerf(_, _, _, _, _)
Zip5ForPerf(cnt, est, est_dun, performances, k) ==
    IF k > Len(performances) THEN <<>>
    ELSE Zip5PerfRecords(cnt, est, est_dun, performances[k])
         \o Zip5ForPerf(cnt, est, est_dun, performances, k + 1)

Zip5EstabRecords(cnt, estab) ==
    LET est     == IF XPathName(estab) = <<>> THEN NA ELSE XPathName(estab)[1]
        est_dun == FirstOrNA(XPathIdExtension(estab))
    IN  IF XPathPerformances(estab) # <<>>
        THEN Zip5ForPerf(cnt, est, est_dun, XPathPerformances(estab), 1)
        ELSE << <<cnt, est, est_dun, NA, NA, NA>> >>

Zip5NoEstabRecord(cnt) == <<cnt, NA, NA, NA, NA, NA>>

----------------------------------------------------------------------------
(* Conversion of a record of establishments2 to output records *)

\* ConvertRow without the test "if ndc_value or duns_value"
ConvertRow_KeepsAll(row) ==
    LET ndc        == row[6]
        duns       == row[3]
        ndc_value  == IF ndc = NA THEN None ELSE ndc
        duns_value == IF duns = NA THEN None ELSE duns
        ndc_digits == IF Truthy(ndc_value) THEN ReplaceDash(ndc_value) ELSE None
    IN  << [ndc |-> ndc_value, duns |-> duns_value, ndc_digits |-> ndc_digits] >>

\* process_xml_file, body of "for row in estab_data": the records it appends
ConvertRow(row) ==
    LET ndc        == row[6]
        duns       == row[3]
        ndc_value  == IF ndc = NA THEN None ELSE ndc
        duns_value == IF duns = NA THEN None ELSE duns
        ndc_digits == IF Truthy(ndc_value) THEN ReplaceDash(ndc_value) ELSE None
    IN  IF Truthy(ndc_value) \/ Truthy(duns_value)
        THEN << [ndc |-> ndc_value, duns |-> duns_value, ndc_digits |-> ndc_digits] >>
        ELSE <<>>

\* TraverseRow comparing the label without regard to case
TraverseRow_AnyCase(row) ==
    LET activity   == row[4]
        ndc        == row[6]
        duns       == row[3]
        ndc_value  == IF ndc = NA THEN None ELSE ndc
        duns_value == IF duns = NA THEN None ELSE duns
        ndc_digits == IF Truthy(ndc_value) THEN ReplaceDash(ndc_value) ELSE None
    IN  IF activity \in {MANUFACTURE, manufacture, Manufacture}
        THEN IF ~Truthy(ndc_value) /\ ~Truthy(duns_value)
             THEN <<>>
             ELSE << [ndc |-> ndc_value, duns |-> duns_value,
                      ndc_digits |-> ndc_digits] >>
        ELSE <<>>

\* traverse_xmls_and_extract_data, body of "for row in estab_data"
TraverseRow(row) ==
    LET activity   == row[4]
        ndc        == row[6]
        duns       == row[3]
        ndc_value  == IF ndc = NA THEN None ELSE ndc
        duns_value == IF duns = NA THEN None ELSE duns
        ndc_digits == IF Truthy(ndc_value) THEN ReplaceDash(ndc_value) ELSE None
    IN  IF activity = MANUFACTURE \/ activity = manufacture
        THEN IF ~Truthy(ndc_value) /\ ~Truthy(duns_value)
             THEN <<>>
             ELSE << [ndc |-> ndc_value, duns |-> duns_value,
                      ndc_digits |-> ndc_digits] >>
        ELSE <<>>

----------------------------------------------------------------------------
(* The documents the model is run on *)

Digit(n) == <<"0", "1", "2", "3", "4", "5", "6", "7", "8", "9">>[n + 1]

\* the numbers of NDC codes of a sequence of activities that has, with the
\* activities themselves, at most w nodes
RECURSIVE NdcCounts(_)
NdcCounts(w) ==
    IF w <= 0 THEN {<<>>}
    ELSE {<<>>} \cup
         UNION {{<<n>> \o s : s \in NdcCounts(w - 1 - n)} : n \in 0..(w - 1)}

RECURSIVE Total(_)
Total(ns) == IF ns = <<>> THEN 0 ELSE 1 + Head(ns) + Total(Tail(ns))

\* the shapes of the documents of at most w nodes: per organization node,
\* whether it lies on the fixed path, and the NDC count of each activity
RECURSIVE Shapes(_)
Shapes(w) ==
    IF w <= 0 THEN {<<>>}
    ELSE {<<>>} \cup
         UNION {{<<[onPath |-> b, perfs |-> p]>> \o s :
                     s \in Shapes(w - 1 - Total(p))} :
                 b \in BOOLEAN, p \in NdcCounts(w - 1)}

\* activity j of node k with n NDC codes; every value names its position
ShapePerf(k, j, n) ==
    [code    |-> << [displayName |-> IF j % 2 = 1 THEN MANUFACTURE ELSE PACK,
                     code        |-> <<"C", Digit(j)>>] >>,
     product |-> [m \in 1..n |->
                     [codeSystem |-> NDC_SYSTEM,
                      code       |-> <<Digit(k), "-", Digit(j), Digit(m)>>]]]

ShapeNode(k, sh) ==
    [path        |-> IF sh.onPath THEN EstabPath ELSE AuthorOrgPath,
     name        |-> << <<"E", Digit(k)>> >>,
     id          |-> << [root |-> DUNS_ROOT, extension |-> <<"9", Digit(k)>>] >>,
     performance |-> [j \in 1..Len(sh.perfs) |-> ShapePerf(k, j, sh.perfs[j])]]

ShapeDocs == {[k \in 1..Len(s) |-> ShapeNode(k, s[k])] : s \in Shapes(MaxNodes)}

\* one establishment whose values vary: absent, empty, dashed, the literal
\* "n/a", a foreign root or code system, an attribute that is missing
NameChoices == {<<>>, <<None>>, << <<"A">>, <<"B">> >>}

IdChoices ==
    {<<>>,
     << [root |-> DUNS_ROOT, extension |-> <<"1", "2">>] >>,
     << [root |-> OTHER_ROOT, extension |-> <<"7", "7">>],
        [root |-> DUNS_ROOT, extension |-> <<"1", "2">>] >>,
     << [root |-> DUNS_ROOT, extension |-> None],
        [root |-> DUNS_ROOT, extension |-> <<"3", "4">>] >>,
     << [root |-> DUNS_ROOT, extension |-> <<>>] >>,
     << [root |-> DUNS_ROOT, extension |-> NA] >>}

CodeChoices ==
    {<<>>,
     << [displayName |-> MANUFACTURE, code |-> <<"C", "1">>] >>,
     << [displayName |-> manufacture, code |-> None] >>,
     << [displayName |-> Manufacture, code |-> <<"C", "1">>] >>,
     << [displayName |-> None, code |-> <<"C", "1">>],
        [displayName |-> MANUFACTURE_API, code |-> <<"C", "2">>] >>}

ProductCodes ==
    {[codeSystem |-> NDC_SYSTEM, code |-> <<"1", "-", "2">>],
     [codeSystem |-> NDC_SYSTEM, code |-> <<>>],
     [codeSystem |-> NDC_SYSTEM, code |-> NA],
     [codeSystem |-> NDC_SYSTEM, code |-> None],
     [codeSystem |-> NDC_SYSTEM, code |-> <<"n", "-", "/", "a">>],
     [codeSystem |-> OTHER_SYSTEM, code |-> <<"3", "-">>]}

ProductChoices ==
    {<<>>} \cup {<<a>> : a \in ProductCodes}
           \cup {<<a, b>> : a \in ProductCodes, b \in ProductCodes}

PerformanceChoices ==
    {<<>>} \cup {<< [code |-> c, product |-> p] >> :
                     c \in CodeChoices, p \in ProductChoices}

ValueDocs ==
    {<< [path |-> EstabPath, name |-> n, id |-> d, performance |-> a] >> :
         n \in NameChoices, d \in IdChoices, a \in PerformanceChoices}

OkFile(d) == [status |-> "ok", tree |-> d]

\* a file that etree.parse rejects
Malformed == [status |-> "malformed", tree |-> <<>>]

\* a file on which the XPath evaluation of establishments2 raises
Raising(d) == [status |-> "raises", tree |-> d]

DocA == [k \in 1..2 |-> ShapeNode(k, [onPath |-> TRUE, perfs |-> <<2>>])]

DocB == << [path |-> EstabPath, name |-> <<>>, id |-> <<>>,
            performance |-> << [code |-> <<>>, product |-> <<>>] >>] >>

BatchFiles == {OkFile(DocA), OkFile(DocB), OkFile(<<>>), Malformed, Raising(DocA)}

RECURSIVE SeqsUpTo(_, _)
SeqsUpTo(S, n) ==
    IF n = 0 THEN {<<>>}
    ELSE {<<>>} \cup {<<x>> \o s : x \in S, s \in SeqsUpTo(S, n - 1)}

\* the directory listings: one rich document, or several files of a batch
Dirs == {<<OkFile(d)>> : d \in ShapeDocs \cup ValueDocs}
        \cup SeqsUpTo(BatchFiles, MaxFiles)

----------------------------------------------------------------------------
(* The state after the directory was listed *)

Init ==
    /\ mode \in {"daily", "zip5"}
    /\ xml_files \in Dirs
    /\ i = 0
    /\ pc = "for"
    /\ tree = <<>>
    /\ establishments = <<>>
    /\ count = 0
    /\ estab_list = <<>>
    /\ estab_data = <<>>
    /\ r = 0
    /\ records = <<>>
    /\ all_records = <<>>
    /\ contrib = <<>>
    /\ OthersIdle

\* the file the loop is at
File == xml_files[i]

----------------------------------------------------------------------------
(* src/daily_automation.py: process_all_xml_files, process_xml_file,       *)
(* establishments2                                                         *)

\* for i, xml_file in enumerate(xml_files, 1): records = process_xml_file(..)
ForXmlFile ==
    /\ mode = "daily" /\ pc = "for" /\ i < Len(xml_files)
    /\ i' = i + 1
    /\ contrib' = Append(contrib, <<>>)
    /\ pc' = "parse"
    /\ UNCHANGED <<mode, xml_files, tree, establishments, count, estab_list,
                   estab_data, r, records, all_records>>
    /\ UNCHANGED others

\* tree = etree.parse(str(xml_file), parser), which raises on a malformed file
ParseXmlFile ==
    /\ mode = "daily" /\ pc = "parse"
    /\ IF File.status = "malformed"
       THEN pc' = "except" /\ tree' = tree
       ELSE pc' = "call" /\ tree' = File.tree
    /\ UNCHANGED <<mode, xml_files, i, establishments, count, estab_list,
                   estab_data, r, records, all_records, contrib>>
    /\ UNCHANGED others

\* Establishments2Enter with estab_list kept from the call before (a list
\* that outlives the call, as a module-level or default-argument list would)
Establishments2Enter_KeepsList ==
    /\ mode = "daily" /\ pc = "call"
    /\ IF File.status = "raises"
       THEN pc' = "except" /\ UNCHANGED <<count, estab_list, establishments>>
       ELSE /\ count' = 0
            /\ estab_list' = estab_list
            /\ establishments' = XPathEstablishments(tree)
            /\ pc' = "estabs"
    /\ UNCHANGED <<mode, xml_files, i, tree, estab_data, r, records,
                   all_records, contrib>>
    /\ UNCHANGED others

\* establishments2: count = 0, estab_list = [], the XPath of the fixed path
Establishments2Enter ==
    /\ mode = "daily" /\ pc = "call"
    /\ IF File.status = "raises"
       THEN pc' = "except" /\ UNCHANGED <<count, estab_list, establishments>>
       ELSE /\ count' = 0
            /\ estab_list' = <<>>
            /\ establishments' = XPathEstablishments(tree)
            /\ pc' = "estabs"
    /\ UNCHANGED <<mode, xml_files, i, tree, estab_data, r, records,
                   all_records, contrib>>
    /\ UNCHANGED others

\* Establishments2ForEstab with count += 1 moved to the end of the loop body
Establishments2ForEstab_ZeroBased ==
    /\ mode = "daily" /\ pc = "estabs"
    /\ establishments # <<>> /\ count < Len(establishments)
    /\ count' = count + 1
    /\ estab_list' = estab_list \o EstabRecords(count, establishments[count + 1])
    /\ pc' = IF count + 1 = Len(establishments) THEN "ret" ELSE "estabs"
    /\ UNCHANGED <<mode, xml_files, i, tree, establishments, estab_data, r,
                   records, all_records, contrib>>
    /\ UNCHANGED others

\* if establishments: for estab in establishments: one iteration
Establishments2ForEstab ==
    /\ mode = "daily" /\ pc = "estabs"
    /\ establishments # <<>> /\ count < Len(establishments)
    /\ count' = count + 1
    /\ estab_list' = estab_list \o EstabRecords(count + 1, establishments[count + 1])
    /\ pc' = IF count + 1 = Len(establishments) THEN "ret" ELSE "estabs"
    /\ UNCHANGED <<mode, xml_files, i, tree, establishments, estab_data, r,
                   records, all_records, contrib>>
    /\ UNCHANGED others

\* Establishments2NoEstab without the append: an empty list is returned
Establishments2NoEstab_Empty ==
    /\ mode = "daily" /\ pc = "estabs"
    /\ establishments = <<>>
    /\ pc' = "ret"
    /\ UNCHANGED <<mode, xml_files, i, tree, establishments, count, estab_list,
                   estab_data, r, records, all_records, contrib>>
    /\ UNCHANGED others

\* else: no establishments found at all
Establishments2NoEstab ==
    /\ mode = "daily" /\ pc = "estabs"
    /\ establishments = <<>>
    /\ estab_list' = Append(estab_list, NoEstabRecord)
    /\ pc' = "ret"
    /\ UNCHANGED <<mode, xml_files, i, tree, establishments, count, estab_data,
                   r, records, all_records, contrib>>
    /\ UNCHANGED others

\* return estab_list;  estab_data = establishments2(tree);  records = []
Establishments2Return ==
    /\ mode = "daily" /\ pc = "ret"
    /\ estab_data' = estab_list
    /\ records' = <<>>
    /\ r' = 0
    /\ pc' = "rows"
    /\ UNCHANGED <<mode, xml_files, i, tree, establishments, count, estab_list,
                   all_records, contrib>>
    /\ UNCHANGED others

\* for row in estab_data: one iteration
ProcessXmlFileRow ==
    /\ mode = "daily" /\ pc = "rows" /\ r < Len(estab_data)
    /\ r' = r + 1
    /\ records' = records \o ConvertRow(estab_data[r + 1])
    /\ UNCHANGED <<mode, xml_files, i, pc, tree, establishments, count,
                   estab_list, estab_data, all_records, contrib>>
    /\ UNCHANGED others

\* return records
ProcessXmlFileReturn ==
    /\ mode = "daily" /\ pc = "rows" /\ r = Len(estab_data)
    /\ pc' = "returned"
    /\ UNCHANGED <<mode, xml_files, i, tree, establishments, count, estab_list,
                   estab_data, r, records, all_records, contrib>>
    /\ UNCHANGED others

\* except Exception: return []
ProcessXmlFileExcept ==
    /\ mode = "daily" /\ pc = "except"
    /\ records' = <<>>
    /\ pc' = "returned"
    /\ UNCHANGED <<mode, xml_files, i, tree, establishments, count, estab_list,
                   estab_data, r, all_records, contrib>>
    /\ UNCHANGED others

\* if records: for record in records: all_records.append(record)
AppendRecords ==
    /\ mode = "daily" /\ pc = "returned"
    /\ all_records' = all_records \o records
    /\ contrib' = [contrib EXCEPT ![i] = records]
    /\ pc' = "for"
    /\ UNCHANGED <<mode, xml_files, i, tree, establishments, count, estab_list,
                   estab_data, r, records>>
    /\ UNCHANGED others

\* the loop is over: return all_records
ProcessAllReturn ==
    /\ mode = "daily" /\ pc = "for" /\ i = Len(xml_files)
    /\ pc' = "done"
    /\ UNCHANGED <<mode, xml_files, i, tree, establishments, count, estab_list,
                   estab_data, r, records, all_records, contrib>>
    /\ UNCHANGED others

----------------------------------------------------------------------------
(* src/scripts/zip5.py: traverse_xmls_and_extract_data, establishments2 *)

\* for i, xml_file in enumerate(xml_files, 1): try:
TraverseFor ==
    /\ mode = "zip5" /\ pc = "for" /\ i < Len(xml_files)
    /\ i' = i + 1
    /\ contrib' = Append(contrib, <<>>)
    /\ pc' = "parse"
    /\ UNCHANGED <<mode, xml_files, tree, establishments, count, estab_list,
                   estab_data, r, records, all_records>>
    /\ UNCHANGED others

\* tree = etree.parse(str(xml_file), parser)
TraverseParse ==
    /\ mode = "zip5" /\ pc = "parse"
    /\ IF File.status = "malformed"
       THEN pc' = "except" /\ tree' = tree
       ELSE pc' = "call" /\ tree' = File.tree
    /\ UNCHANGED <<mode, xml_files, i, establishments, count, estab_list,
                   estab_data, r, records, all_records, contrib>>
    /\ UNCHANGED others

\* establishments2: count = 0, estab_list = [], the XPath of the fixed path
Zip5Establishments2Enter ==
    /\ mode = "zip5" /\ pc = "call"
    /\ IF File.status = "raises"
       THEN pc' = "except" /\ UNCHANGED <<count, estab_list, establishments>>
       ELSE /\ count' = 0
            /\ estab_list' = <<>>
            /\ establishments' = XPathEstablishments(tree)
            /\ pc' = "estabs"
    /\ UNCHANGED <<mode, xml_files, i, tree, estab_data, r, records,
                   all_records, contrib>>
    /\ UNCHANGED others

\* for estab in label_xml.xpath(...): one iteration
Zip5Establishments2ForEstab ==
    /\ mode = "zip5" /\ pc = "estabs"
    /\ establishments # <<>> /\ count < Len(establishments)
    /\ count' = count + 1
    /\ estab_list' = estab_list
                     \o Zip5EstabRecords(count + 1, establishments[count + 1])
    /\ pc' = IF count + 1 = Len(establishments) THEN "ret" ELSE "estabs"
    /\ UNCHANGED <<mode, xml_files, i, tree, establishments, estab_data, r,
                   records, all_records, contrib>>
    /\ UNCHANGED others

\* else: the record of a document without establishments
Zip5Establishments2NoEstab ==
    /\ mode = "zip5" /\ pc = "estabs"
    /\ establishments = <<>>
    /\ estab_list' = Append(estab_list, Zip5NoEstabRecord(count))
    /\ pc' = "ret"
    /\ UNCHANGED <<mode, xml_files, i, tree, establishments, count, estab_data,
                   r, records, all_records, contrib>>
    /\ UNCHANGED others

\* return estab_list;  estab_data = establishments2(tree)
Zip5Establishments2Return ==
    /\ mode = "zip5" /\ pc = "ret"
    /\ estab_data' = estab_list
    /\ r' = 0
    /\ pc' = "rows"
    /\ UNCHANGED <<mode, xml_files, i, tree, establishments, count, estab_list,
                   records, all_records, contrib>>
    /\ UNCHANGED others

\* for row in estab_data: one iteration, appending to ndc_duns_list
TraverseForRow ==
    /\ mode = "zip5" /\ pc = "rows" /\ r < Len(estab_data)
    /\ r' = r + 1
    /\ all_records' = all_records \o TraverseRow(estab_data[r + 1])
    /\ contrib' = [contrib EXCEPT ![i] = @ \o TraverseRow(estab_data[r + 1])]
    /\ UNCHANGED <<mode, xml_files, i, pc, tree, establishments, count,
                   estab_list, estab_data, records>>
    /\ UNCHANGED others

\* the rows are done: on to the next file
TraverseNextFile ==
    /\ mode = "zip5" /\ pc = "rows" /\ r = Len(estab_data)
    /\ pc' = "for"
    /\ UNCHANGED <<mode, xml_files, i, tree, establishments, count, estab_list,
                   estab_data, r, records, all_records, contrib>>
    /\ UNCHANGED others

\* TraverseExcept with break in the place of continue
TraverseExcept_Breaks ==
    /\ mode = "zip5" /\ pc = "except"
    /\ pc' = "done"
    /\ UNCHANGED <<mode, xml_files, i, tree, establishments, count, estab_list,
                   estab_data, r, records, all_records, contrib>>
    /\ UNCHANGED others

\* except Exception: continue
TraverseExcept ==
    /\ mode = "zip5" /\ pc = "except"
    /\ pc' = "for"
    /\ UNCHANGED <<mode, xml_files, i, tree, establishments, count, estab_list,
                   estab_data, r, records, all_records, contrib>>
    /\ UNCHANGED others

\* the loop is over: return ndc_duns_list
TraverseReturn ==
    /\ mode = "zip5" /\ pc = "for" /\ i = Len(xml_files)
    /\ pc' = "done"
    /\ UNCHANGED <<mode, xml_files, i, tree, establishments, count, estab_list,
                   estab_data, r, records, all_records, contrib>>
    /\ UNCHANGED others

----------------------------------------------------------------------------

Next ==
    \/ ForXmlFile
    \/ ParseXmlFile
    \/ Establishments2Enter
    \/ Establishments2ForEstab
    \/ Establishments2NoEstab
    \/ Establishments2Return
    \/ ProcessXmlFileRow
    \/ ProcessXmlFileReturn
    \/ ProcessXmlFileExcept
    \/ AppendRecords
    \/ ProcessAllReturn
    \/ TraverseFor
    \/ TraverseParse
    \/ Zip5Establishments2Enter
    \/ Zip5Establishments2ForEstab
    \/ Zip5Establishments2NoEstab
    \/ Zip5Establishments2Return
    \/ TraverseForRow
    \/ TraverseNextFile
    \/ TraverseExcept
    \/ TraverseReturn

Spec == Init /\ [][Next]_vars

----------------------------------------------------------------------------
(* What the claims speak of, read off the document *)

Max(a, b) == IF a >= b THEN a ELSE b

\* the establishments matched by the fixed path, in document order
Matched(d) == SelectSeq(d, OnEstabPath)

\* name and first id extension of an establishment, "n/a" when it has none
NameOf(e) == IF Len(e.name) = 0 THEN NA ELSE e.name[1]

DunsOf(e) ==
    IF \E k \in 1..Len(e.id) : e.id[k].extension # None
    THEN e.id[CHOOSE k \in 1..Len(e.id) :
                  /\ e.id[k].extension # None
                  /\ \A l \in 1..(k - 1) : e.id[l].extension = None].extension
    ELSE NA

\* the NDC codes under an activity, and its display label and code
NdcsOf(a) == XPathNdc(a)

LabelOf(a) == FirstOrNA(XPathDisplayName(a))

CodeOf(a) == FirstOrNA(XPathCode(a))

\* the number of records of the first j activities of a sequence
RECURSIVE Offset(_, _)
Offset(perfs, j) ==
    IF j = 0 THEN 0
    ELSE Offset(perfs, j - 1) + Max(1, Len(NdcsOf(perfs[j])))

RecordsOfEstab(e) == Max(1, Offset(e.performance, Len(e.performance)))

RECURSIVE SumRecords(_, _)
SumRecords(es, k) ==
    IF k = 0 THEN 0 ELSE SumRecords(es, k - 1) + RecordsOfEstab(es[k])

ExpectedCount(d) ==
    IF Matched(d) = <<>> THEN 1 ELSE SumRecords(Matched(d), Len(Matched(d)))

\* the records of estab_list that carry sequence index k
RowsOf(k) == LET HasIndex(row) == row[1] = k IN SelectSeq(estab_list, HasIndex)

\* establishments2 is about to return estab_list
AtReturn == pc = "ret"

----------------------------------------------------------------------------
(* Claims *)

\* C1: the number of records establishments2 returns is 1 when no
\* establishment matches the fixed path and otherwise the sum over the matched
\* establishments e of max(1, sum over the activities a of e of
\* max(1, number of NDC codes under a)); it is never 0.
C1_RecordCount ==
    AtReturn => /\ Len(estab_list) = ExpectedCount(tree)
                /\ Len(estab_list) >= 1

C1_Witness ==
    /\ AtReturn
    /\ Len(Matched(tree)) = 2
    /\ \E k \in 1..2 : Matched(tree)[k].performance = <<>>
    /\ \E k \in 1..2 : \E j, l \in 1..Len(Matched(tree)[k].performance) :
           /\ Len(NdcsOf(Matched(tree)[k].performance[j])) = 0
           /\ Len(NdcsOf(Matched(tree)[k].performance[l])) = 2
    /\ Len(estab_list) = 4

\* C2: a document without an establishment node on the fixed path yields
\* exactly one record, with sequence index 0 and name, DUNS, activity name,
\* activity code and NDC all absent.
C2_NoEstablishment ==
    (AtReturn /\ Matched(tree) = <<>>)
        => estab_list = << <<0, NA, NA, NA, NA, NA>> >>

C2_Witness ==
    /\ AtReturn
    /\ Matched(tree) = <<>>
    /\ Len(tree) = 2
    /\ Len(estab_list) = 1

\* C3: a matched establishment without performance/actDefinition descendant
\* yields exactly one record, carrying its index, name and DUNS, with activity
\* name, activity code and NDC absent.
C3_NoActivity ==
    AtReturn =>
        \A k \in 1..Len(Matched(tree)) :
            LET e == Matched(tree)[k]
            IN  e.performance = <<>>
                    => RowsOf(k) = << <<k, NameOf(e), DunsOf(e), NA, NA, NA>> >>

C3_Witness ==
    /\ AtReturn
    /\ Len(Matched(tree)) = 2
    /\ Matched(tree)[2].performance = <<>>
    /\ Matched(tree)[1].performance # <<>>
    /\ RowsOf(2) = << <<2, NameOf(Matched(tree)[2]), DunsOf(Matched(tree)[2]),
                        NA, NA, NA>> >>

\* C4: an activity without NDC code yields exactly one record, carrying the
\* activity's display label and code, with NDC absent; an activity with
\* n >= 1 NDC codes yields exactly n records, one per NDC.
C4_PerActivity ==
    AtReturn =>
        \A k \in 1..Len(Matched(tree)) :
            LET e     == Matched(tree)[k]
                perfs == e.performance
                rows  == RowsOf(k)
            IN  perfs # <<>> =>
                  /\ Len(rows) = Offset(perfs, Len(perfs))
                  /\ \A j \in 1..Len(perfs) :
                       LET off  == Offset(perfs, j - 1)
                           ndcs == NdcsOf(perfs[j])
                       IN  /\ Offset(perfs, j) - off = Max(1, Len(ndcs))
                           /\ \A m \in 1..Max(1, Len(ndcs)) :
                                /\ rows[off + m][4] = LabelOf(perfs[j])
                                /\ rows[off + m][5] = CodeOf(perfs[j])
                                /\ rows[off + m][6] =
                                       IF Len(ndcs) = 0 THEN NA ELSE ndcs[m]

C4_Witness ==
    /\ AtReturn
    /\ Len(Matched(tree)) = 1
    /\ Len(Matched(tree)[1].performance) = 2
    /\ Len(NdcsOf(Matched(tree)[1].performance[1])) = 0
    /\ Len(NdcsOf(Matched(tree)[1].performance[2])) = 2
    /\ Len(estab_list) = 3
    /\ estab_list[1][6] = NA
    /\ estab_list[3][6] = NdcsOf(Matched(tree)[1].performance[2])[2]

\* C5: the matched establishments are numbered 1, 2, 3, ... in document
\* order; every record of the k-th carries index k with that establishment's
\* name and first id extension; the records are in nondecreasing index order.
C5_SequenceIndex ==
    (AtReturn /\ Matched(tree) # <<>>) =>
        /\ {estab_list[p][1] : p \in 1..Len(estab_list)} = 1..Len(Matched(tree))
        /\ \A p \in 1..Len(estab_list) :
             LET k == estab_list[p][1]
             IN  /\ k \in 1..Len(Matched(tree))
                 /\ estab_list[p][2] = NameOf(Matched(tree)[k])
                 /\ estab_list[p][3] = DunsOf(Matched(tree)[k])
        /\ \A p, q \in 1..Len(estab_list) :
             p < q => estab_list[p][1] <= estab_list[q][1]

C5_Witness ==
    /\ AtReturn
    /\ Len(tree) = 3
    /\ Len(Matched(tree)) = 2
    /\ tree[1].path # EstabPath
    /\ estab_list[1][1] = 1
    /\ estab_list[1][2] = tree[2].name[1]
    /\ estab_list[Len(estab_list)][1] = 2
    /\ estab_list[Len(estab_list)][3] = tree[3].id[1].extension

\* C6: for every emitted output record, ndc_digits is absent if and only if
\* ndc is absent, and when ndc is present ndc_digits is ndc with every '-'
\* removed.  (The claim as stated; the code breaks it for the NDC "".)
RECURSIVE WithoutDashes(_)
WithoutDashes(str) ==
    IF str = <<>> THEN <<>>
    ELSE IF Head(str) = "-" THEN WithoutDashes(Tail(str))
         ELSE <<Head(str)>> \o WithoutDashes(Tail(str))

C6_NdcDigits ==
    \A k \in 1..Len(all_records) :
        LET rec == all_records[k]
        IN  /\ (rec.ndc_digits = None) <=> (rec.ndc = None)
            /\ rec.ndc # None => rec.ndc_digits = WithoutDashes(rec.ndc)

\* C7: process_xml_file discards a record of establishments2 only if both its
\* ndc and its duns are absent: every record whose ndc or duns is present
\* yields one output record.  (The claim as stated; the code also discards a
\* record whose present values are empty strings.)
C7_NeverDiscards ==
    (mode = "daily" /\ pc = "rows") =>
        Len(records) = Cardinality({k \in 1..r : \/ estab_data[k][6] # NA
                                                 \/ estab_data[k][3] # NA})

\* C8: no output record of either pipeline has both ndc and duns absent, and
\* a document without establishment on the fixed path contributes no output
\* record.
C8_OneOfBothPresent ==
    /\ \A k \in 1..Len(all_records) :
           ~(all_records[k].ndc = None /\ all_records[k].duns = None)
    /\ \A k \in 1..Len(records) :
           ~(records[k].ndc = None /\ records[k].duns = None)
    /\ \A j \in 1..Len(contrib) :
           Matched(xml_files[j].tree) = <<>> => contrib[j] = <<>>

C8_Witness ==
    /\ pc = "done"
    /\ Len(xml_files) = 2
    /\ xml_files[1].status = "ok" /\ Matched(xml_files[1].tree) = <<>>
    /\ contrib[1] = <<>>
    /\ contrib[2] # <<>>
    /\ \E k \in 1..Len(estab_data) : estab_data[k][6] # NA

\* file j has been dealt with completely
Finished(j) == j < i \/ (j = i /\ pc \in {"for", "done"})

\* a call of establishments2 / of the row loop is under way
InCall == pc \in {"call", "estabs", "ret", "rows"}

\* C9: extraction is idempotent: two runs on the same document give identical
\* output lists, and the document is not changed by a run.
C9_Idempotent ==
    /\ \A a, b \in 1..Len(contrib) :
           (Finished(a) /\ Finished(b) /\ xml_files[a] = xml_files[b])
               => contrib[a] = contrib[b]
    /\ InCall => tree = xml_files[i].tree

C9_Witness ==
    /\ pc = "done"
    /\ mode = "daily"
    /\ Len(xml_files) = 2
    /\ xml_files[1] = xml_files[2]
    /\ xml_files[1].status = "ok"
    /\ Len(contrib[1]) >= 2
    /\ contrib[1] = contrib[2]

RECURSIVE Flatten(_)
Flatten(ss) == IF ss = <<>> THEN <<>> ELSE Head(ss) \o Flatten(Tail(ss))

\* C10: a document that fails to parse or raises during extraction does not
\* abort the batch: it contributes no record to the accumulated list, and
\* every remaining document is still processed.
C10_BatchSurvives ==
    /\ \A j \in 1..Len(contrib) :
           xml_files[j].status # "ok" => contrib[j] = <<>>
    /\ pc \in {"for", "done"} => all_records = Flatten(contrib)
    /\ pc = "done" => /\ i = Len(xml_files)
                      /\ Len(contrib) = Len(xml_files)

C10_Witness ==
    /\ pc = "done"
    /\ Len(xml_files) = 2
    /\ xml_files[1].status # "ok"
    /\ xml_files[2].status = "ok"
    /\ contrib[1] = <<>>
    /\ contrib[2] # <<>>
    /\ all_records = contrib[2]

\* C11: the sentinel "n/a" never crosses the output boundary: no output record
\* has ndc, duns or ndc_digits equal to the string "n/a"; an absent value is
\* None, and a value is reported absent only when the document lacks it.
\* (The claim as stated; the code reports a value the document spells "n/a"
\* as absent, and emits ndc_digits "n/a" for the NDC "n-/a".)
LacksDuns(d) ==
    \E k \in 1..Len(Matched(d)) : XPathIdExtension(Matched(d)[k]) = <<>>

LacksNdc(d) ==
    \E k \in 1..Len(Matched(d)) :
        LET perfs == Matched(d)[k].performance
        IN  \/ perfs = <<>>
            \/ \E j \in 1..Len(perfs) : NdcsOf(perfs[j]) = <<>>

C11_NoSentinel ==
    /\ \A k \in 1..Len(all_records) :
           /\ all_records[k].ndc # NA
           /\ all_records[k].duns # NA
           /\ all_records[k].ndc_digits # NA
    /\ \A j \in 1..Len(contrib) : \A k \in 1..Len(contrib[j]) :
           /\ contrib[j][k].duns = None => LacksDuns(xml_files[j].tree)
           /\ contrib[j][k].ndc = None => LacksNdc(xml_files[j].tree)

\* C12: the DUNS of an establishment is taken only from an id node whose root
\* is 1.3.6.1.4.1.519.1; an id with another root never supplies the duns.
\* (The claim as stated; the code takes the first extension of any id.)
IsDunsId(x) == x.root = DUNS_ROOT /\ x.extension # None

DunsRootExtension(e) ==
    LET ids == SelectSeq(e.id, IsDunsId)
    IN  IF ids = <<>> THEN NA ELSE ids[1].extension

C12_DunsRootOnly ==
    AtReturn =>
        \A p \in 1..Len(estab_list) :
            estab_list[p][1] >= 1 =>
                estab_list[p][3] = DunsRootExtension(Matched(tree)[estab_list[p][1]])

\* C13: an NDC is emitted only for a code node whose code system is
\* 2.16.840.1.113883.6.69; a code of another code system never appears as ndc.
\* (The claim as stated; the code takes every code under the product path.)
NdcSystemCodes(e) ==
    UNION {{a.product[m].code :
               m \in {n \in 1..Len(a.product) :
                          /\ a.product[n].codeSystem = NDC_SYSTEM
                          /\ a.product[n].code # None}} :
           a \in {e.performance[j] : j \in 1..Len(e.performance)}}

C13_NdcSystemOnly ==
    AtReturn =>
        \A p \in 1..Len(estab_list) :
            (estab_list[p][1] >= 1 /\ estab_list[p][6] # NA) =>
                estab_list[p][6] \in NdcSystemCodes(Matched(tree)[estab_list[p][1]])

\* C14: in traverse_xmls_and_extract_data a record contributes an output
\* mapping only if its activity display label is exactly "MANUFACTURE" or
\* exactly "manufacture"; any other label, or none, contributes nothing.
ExactLabel(row) == row[4] = MANUFACTURE \/ row[4] = manufacture

C14_ExactLabelFilter ==
    (mode = "zip5" /\ pc = "rows") =>
        /\ Len(contrib[i]) <= Cardinality({k \in 1..r : ExactLabel(estab_data[k])})
        /\ \A n \in 1..Len(contrib[i]) :
               \E k \in 1..r :
                   /\ ExactLabel(estab_data[k])
                   /\ contrib[i][n].duns \in {estab_data[k][3], None}
                   /\ contrib[i][n].ndc \in {estab_data[k][6], None}

C14_Witness ==
    /\ mode = "zip5" /\ pc = "rows" /\ r = Len(estab_data)
    /\ Len(estab_data) = 3
    /\ estab_data[1][4] = MANUFACTURE
    /\ estab_data[2][4] = PACK
    /\ Len(contrib[i]) = 1

----------------------------------------------------------------------------
(* The orchestration: main of daily_automation.py, main of zip5.py and    *)
(* main of truncate_table5.py, with the table5 they write to              *)

\* batch_size of insert_to_supabase, scaled down
BatchSize == 2

\* the most XML files extract_prescription_zips reports
MaxXml == 2

\* len(DOWNLOAD_FILES)
NumParts == 5

Min(a, b) == IF a <= b THEN a ELSE b

\* records as process_xml_file emits them
RecA == [ndc |-> <<"1", "-", "2">>, duns |-> <<"1", "2">>, ndc_digits |-> <<"1", "2">>]
RecB == [ndc |-> None, duns |-> <<"3", "4">>, ndc_digits |-> None]
RecC == [ndc |-> <<"3", "-">>, duns |-> None, ndc_digits |-> <<"3">>]

\* what process_all_xml_files / traverse_xmls_and_extract_data may return
RecordLists == {<<>>, <<RecA>>, <<RecB, RecA, RecC>>}

\* what table5 may hold when a main starts: rows of earlier runs
Table5Choices == {<<>>, <<RecB>>, <<RecA, RecB>>}

\* the filter .neq(column, value) of a DELETE: column <> value, which is
\* not true of a row whose column is NULL
Neq(v, value) == v # None /\ v # value

MainEntry ==
    /\ script \in {"daily", "zip5", "truncate"}
    /\ mpc = "start"
    /\ work_dir \in BOOLEAN
    /\ idx = 0
    /\ downloads_dir = {}
    /\ download_count = 0
    /\ extract_count = 0
    /\ n_dirs = 0
    /\ xml_count = 0
    /\ main_records = <<>>
    /\ table5 \in Table5Choices
    /\ truncated = "none"
    /\ ins_i = 0
    /\ fb = 0
    /\ total_inserted = 0
    /\ sent = <<>>
    /\ exc = <<>>
    /\ rm_failed = FALSE

\* setup_work_directory: cleanup_work_directory(), then the mkdirs
SetupWorkDirectory ==
    /\ script = "daily" /\ mpc = "start"
    /\ \/ /\ work_dir' = TRUE
          /\ mpc' = "download"
          /\ UNCHANGED <<exc, rm_failed>>
       \/ /\ work_dir          \* shutil.rmtree(WORK_DIR) raises
          /\ work_dir' = work_dir
          /\ rm_failed' = TRUE
          /\ exc' = <<"setup: rmtree">>
          /\ mpc' = "except"
    /\ UNCHANGED <<script, idx, downloads_dir, download_count, extract_count,
                   n_dirs, xml_count, main_records, table5, truncated, ins_i,
                   fb, total_inserted, sent>>
    /\ UNCHANGED mainOthers

DownloadFile_StopsAtFailure ==
    /\ script = "daily" /\ mpc = "download" /\ idx < NumParts
    /\ \/ /\ downloads_dir' = downloads_dir \cup {<<idx + 1, "zip">>}
          /\ download_count' = download_count + 1
          /\ idx' = idx + 1
       \/ /\ downloads_dir' = downloads_dir
          /\ UNCHANGED download_count
          /\ idx' = NumParts
       \/ /\ downloads_dir' = downloads_dir \cup {<<idx + 1, "partial">>}
          /\ UNCHANGED download_count
          /\ idx' = NumParts
    /\ UNCHANGED <<script, mpc, work_dir, extract_count, n_dirs, xml_count,
                   main_records, table5, truncated, ins_i, fb, total_inserted,
                   sent, exc, rm_failed>>
    /\ UNCHANGED mainOthers

\* download_fda_data: one turn of the loop over DOWNLOAD_FILES
DownloadFile ==
    /\ script = "daily" /\ mpc = "download" /\ idx < NumParts
    /\ idx' = idx + 1
    /\ \/ /\ downloads_dir' = downloads_dir \cup {<<idx + 1, "zip">>}
          /\ download_count' = download_count + 1
       \/ /\ downloads_dir' = downloads_dir   \* the request raises
          /\ UNCHANGED download_count
       \/ \* a chunk raises after open(output_path, 'wb')
          /\ downloads_dir' = downloads_dir \cup {<<idx + 1, "partial">>}
          /\ UNCHANGED download_count
    /\ UNCHANGED <<script, mpc, work_dir, extract_count, n_dirs, xml_count,
                   main_records, table5, truncated, ins_i, fb, total_inserted,
                   sent, exc, rm_failed>>
    /\ UNCHANGED mainOthers

\* return successful_downloads; if download_count == 0: raise
DownloadReturn ==
    /\ script = "daily" /\ mpc = "download" /\ idx = NumParts
    /\ idx' = 0
    /\ IF download_count = 0
       THEN exc' = <<"All downloads failed">> /\ mpc' = "except"
       ELSE exc' = exc /\ mpc' = "extract"
    /\ UNCHANGED <<script, work_dir, downloads_dir, download_count,
                   extract_count, n_dirs, xml_count, main_records, table5,
                   truncated, ins_i, fb, total_inserted, sent, rm_failed>>
    /\ UNCHANGED mainOthers

\* extract_main_zips: one turn of the loop over DOWNLOAD_FILES
ExtractMainZip ==
    /\ script = "daily" /\ mpc = "extract" /\ idx < NumParts
    /\ idx' = idx + 1
    /\ \/ \* not zip_path.exists()
          /\ \A f \in downloads_dir : f[1] # idx + 1
          /\ UNCHANGED extract_count
       \/ /\ <<idx + 1, "zip">> \in downloads_dir
          /\ extract_count' = extract_count + 1
       \/ \* ZipFile or extractall raises
          /\ \E f \in downloads_dir : f[1] = idx + 1
          /\ UNCHANGED extract_count
    /\ UNCHANGED <<script, mpc, work_dir, downloads_dir, download_count,
                   n_dirs, xml_count, main_records, table5, truncated, ins_i,
                   fb, total_inserted, sent, exc, rm_failed>>
    /\ UNCHANGED mainOthers

\* return successful_extractions; if extract_count == 0: raise
ExtractReturn ==
    /\ script = "daily" /\ mpc = "extract" /\ idx = NumParts
    /\ idx' = 0
    /\ IF extract_count = 0
       THEN exc' = <<"All extractions failed">> /\ mpc' = "except"
       ELSE exc' = exc /\ mpc' = "find"
    /\ UNCHANGED <<script, work_dir, downloads_dir, download_count,
                   extract_count, n_dirs, xml_count, main_records, table5,
                   truncated, ins_i, fb, total_inserted, sent, rm_failed>>
    /\ UNCHANGED mainOthers

\* find_all_prescription_directories; if not prescription_dirs: raise
FindAllPrescriptionDirectories ==
    /\ script = "daily" /\ mpc = "find"
    /\ \E n \in 0..extract_count :
           /\ n_dirs' = n
           /\ IF n = 0
              THEN exc' = <<"No prescription directories found">> /\ mpc' = "except"
              ELSE exc' = exc /\ mpc' = "zips"
    /\ UNCHANGED <<script, work_dir, idx, downloads_dir, download_count,
                   extract_count, xml_count, main_records, table5, truncated,
                   ins_i, fb, total_inserted, sent, rm_failed>>
    /\ UNCHANGED mainOthers

\* xml_count = extract_prescription_zips(prescription_dirs); if 0: raise
ExtractPrescriptionZips ==
    /\ script = "daily" /\ mpc = "zips"
    /\ \E n \in 0..MaxXml :
           /\ xml_count' = n
           /\ IF n = 0
              THEN /\ exc' = <<"No XML files extracted from prescription ZIPs">>
                   /\ mpc' = "except"
              ELSE exc' = exc /\ mpc' = "process"
    /\ UNCHANGED <<script, work_dir, idx, downloads_dir, download_count,
                   extract_count, n_dirs, main_records, table5, truncated,
                   ins_i, fb, total_inserted, sent, rm_failed>>
    /\ UNCHANGED mainOthers

ProcessAllXmlFiles_TruncatesFirst ==
    /\ script = "daily" /\ mpc = "process"
    /\ table5' = SelectSeq(table5, LAMBDA row : ~Neq(row.ndc, <<>>))
    /\ truncated' = "True"
    /\ \E recs \in RecordLists :
           /\ main_records' = recs
           /\ IF recs = <<>>
              THEN /\ exc' = <<"No records extracted from XML files">>
                   /\ mpc' = "except"
              ELSE exc' = exc /\ mpc' = "insert"
    /\ UNCHANGED <<script, work_dir, idx, downloads_dir, download_count,
                   extract_count, n_dirs, xml_count, ins_i, fb, total_inserted,
                   sent, rm_failed>>
    /\ UNCHANGED mainOthers

\* all_records = process_all_xml_files(); if not all_records: raise
ProcessAllXmlFiles ==
    /\ script = "daily" /\ mpc = "process"
    /\ \E recs \in RecordLists :
           /\ main_records' = recs
           /\ IF recs = <<>>
              THEN /\ exc' = <<"No records extracted from XML files">>
                   /\ mpc' = "except"
              ELSE exc' = exc /\ mpc' = "truncate"
    /\ UNCHANGED <<script, work_dir, idx, downloads_dir, download_count,
                   extract_count, n_dirs, xml_count, table5, truncated, ins_i,
                   fb, total_inserted, sent, rm_failed>>
    /\ UNCHANGED mainOthers

\* truncate_table5: supabase.table("table5").delete().neq('ndc', '');
\* main of daily_automation.py ignores what it returns
TruncateTable5 ==
    /\ script \in {"daily", "truncate"}
    /\ mpc = IF script = "daily" THEN "truncate" ELSE "start"
    /\ \/ /\ table5' = SelectSeq(table5, LAMBDA row : ~Neq(row.ndc, <<>>))
          /\ truncated' = "True"
       \/ /\ table5' = table5           \* execute() raises: return False
          /\ truncated' = "False"
    /\ mpc' = IF script = "daily" THEN "insert" ELSE "done"
    /\ UNCHANGED <<script, work_dir, idx, downloads_dir, download_count,
                   extract_count, n_dirs, xml_count, main_records, ins_i, fb,
                   total_inserted, sent, exc, rm_failed>>
    /\ UNCHANGED mainOthers

\* the batch insert_to_supabase is at: records[i:i + batch_size]
BatchEnd == Min(ins_i + BatchSize, Len(main_records))

InsertOne_StopsAtFailure ==
    /\ script \in {"daily", "zip5"} /\ mpc = "insert" /\ fb # 0
    /\ \E ok \in BOOLEAN :
           /\ sent' = Append(sent, [kind |-> "one", lo |-> fb, hi |-> fb, ok |-> ok])
           /\ table5' = IF ok THEN Append(table5, main_records[fb]) ELSE table5
           /\ total_inserted' = IF ok THEN total_inserted + 1 ELSE total_inserted
           /\ IF fb < BatchEnd /\ ok
              THEN fb' = fb + 1 /\ ins_i' = ins_i
              ELSE fb' = 0 /\ ins_i' = ins_i + BatchSize
    /\ UNCHANGED <<script, mpc, work_dir, idx, downloads_dir, download_count,
                   extract_count, n_dirs, xml_count, main_records, truncated,
                   exc, rm_failed>>
    /\ UNCHANGED mainOthers

\* insert_to_supabase: supabase.table("table5").insert(batch).execute()
InsertBatch ==
    /\ script \in {"daily", "zip5"} /\ mpc = "insert" /\ fb = 0
    /\ ins_i < Len(main_records)
    /\ \E ok \in BOOLEAN :
           /\ sent' = Append(sent, [kind |-> "batch", lo |-> ins_i + 1,
                                    hi |-> BatchEnd, ok |-> ok])
           /\ IF ok
              THEN /\ table5' = table5 \o SubSeq(main_records, ins_i + 1, BatchEnd)
                   /\ total_inserted' = total_inserted + (BatchEnd - ins_i)
                   /\ ins_i' = ins_i + BatchSize
                   /\ fb' = 0
              ELSE \* except Exception: for record in batch
                   /\ fb' = ins_i + 1
                   /\ UNCHANGED <<table5, total_inserted, ins_i>>
    /\ UNCHANGED <<script, mpc, work_dir, idx, downloads_dir, download_count,
                   extract_count, n_dirs, xml_count, main_records, truncated,
                   exc, rm_failed>>
    /\ UNCHANGED mainOthers

\* the one-by-one loop: supabase.table("table5").insert(record).execute()
InsertOne ==
    /\ script \in {"daily", "zip5"} /\ mpc = "insert" /\ fb # 0
    /\ \E ok \in BOOLEAN :
           /\ sent' = Append(sent, [kind |-> "one", lo |-> fb, hi |-> fb, ok |-> ok])
           /\ table5' = IF ok THEN Append(table5, main_records[fb]) ELSE table5
           /\ total_inserted' = IF ok THEN total_inserted + 1 ELSE total_inserted
           /\ IF fb < BatchEnd
              THEN fb' = fb + 1 /\ ins_i' = ins_i
              ELSE fb' = 0 /\ ins_i' = ins_i + BatchSize
    /\ UNCHANGED <<script, mpc, work_dir, idx, downloads_dir, download_count,
                   extract_count, n_dirs, xml_count, main_records, truncated,
                   exc, rm_failed>>
    /\ UNCHANGED mainOthers

\* insert_to_supabase returns: the range is exhausted
InsertReturn ==
    /\ script \in {"daily", "zip5"} /\ mpc = "insert" /\ fb = 0
    /\ ins_i >= Len(main_records)
    /\ mpc' = "cleanup"
    /\ UNCHANGED <<script, work_dir, idx, downloads_dir, download_count,
                   extract_count, n_dirs, xml_count, main_records, table5,
                   truncated, ins_i, fb, total_inserted, sent, exc, rm_failed>>
    /\ UNCHANGED mainOthers

\* the last step of the try block: cleanup_work_directory() /
\* cleanup_working_directory(working_path)
Cleanup ==
    /\ script \in {"daily", "zip5"} /\ mpc = "cleanup"
    /\ \/ /\ work_dir' = FALSE
          /\ mpc' = "done"
          /\ UNCHANGED <<exc, rm_failed>>
       \/ /\ work_dir                   \* shutil.rmtree raises
          /\ work_dir' = work_dir
          /\ rm_failed' = TRUE
          /\ exc' = <<"cleanup: rmtree">>
          /\ mpc' = "except"
    /\ UNCHANGED <<script, idx, downloads_dir, download_count, extract_count,
                   n_dirs, xml_count, main_records, table5, truncated, ins_i,
                   fb, total_inserted, sent>>
    /\ UNCHANGED mainOthers

ExceptCleanup_Skips ==
    /\ script = "daily" /\ mpc = "except"
    /\ mpc' = "raised"
    /\ UNCHANGED <<script, work_dir, idx, downloads_dir, download_count,
                   extract_count, n_dirs, xml_count, main_records, table5,
                   truncated, ins_i, fb, total_inserted, sent, exc, rm_failed>>
    /\ UNCHANGED mainOthers

\* daily_automation.py: except Exception: cleanup_work_directory(); raise
ExceptCleanup ==
    /\ script = "daily" /\ mpc = "except"
    /\ mpc' = "raised"
    /\ \/ /\ work_dir' = FALSE
          /\ UNCHANGED <<exc, rm_failed>>
       \/ /\ work_dir                   \* shutil.rmtree raises in the handler
          /\ work_dir' = work_dir
          /\ rm_failed' = TRUE
          /\ exc' = Append(exc, "handler: rmtree")
    /\ UNCHANGED <<script, idx, downloads_dir, download_count, extract_count,
                   n_dirs, xml_count, main_records, table5, truncated, ins_i,
                   fb, total_inserted, sent>>
    /\ UNCHANGED mainOthers

\* zip5.py main: working_path.mkdir(exist_ok=True), before the try
Zip5Mkdir ==
    /\ script = "zip5" /\ mpc = "start"
    /\ work_dir' = TRUE
    /\ mpc' = "download"
    /\ UNCHANGED <<script, idx, downloads_dir, download_count, extract_count,
                   n_dirs, xml_count, main_records, table5, truncated, ins_i,
                   fb, total_inserted, sent, exc, rm_failed>>
    /\ UNCHANGED mainOthers

\* download_dailymed_zip: returns the file, or logs and re-raises
Zip5Download ==
    /\ script = "zip5" /\ mpc = "download"
    /\ \/ /\ download_count' = 1
          /\ mpc' = "extract"
          /\ UNCHANGED exc
       \/ /\ exc' = <<"download">>
          /\ mpc' = "except"
          /\ UNCHANGED download_count
    /\ UNCHANGED <<script, work_dir, idx, downloads_dir, extract_count, n_dirs,
                   xml_count, main_records, table5, truncated, ins_i, fb,
                   total_inserted, sent, rm_failed>>
    /\ UNCHANGED mainOthers

\* extract_main_zip, which may re-raise, then create_xml_directory
Zip5ExtractMainZip ==
    /\ script = "zip5" /\ mpc = "extract"
    /\ \/ /\ extract_count' = 1
          /\ mpc' = "zips"
          /\ UNCHANGED exc
       \/ /\ exc' = <<"extract">>
          /\ mpc' = "except"
          /\ UNCHANGED extract_count
    /\ UNCHANGED <<script, work_dir, idx, downloads_dir, download_count, n_dirs,
                   xml_count, main_records, table5, truncated, ins_i, fb,
                   total_inserted, sent, rm_failed>>
    /\ UNCHANGED mainOthers

\* extract_nested_zips_and_collect_xmls: FileNotFoundError when the
\* prescription directory is missing
Zip5ExtractNestedZips ==
    /\ script = "zip5" /\ mpc = "zips"
    /\ \/ /\ n_dirs' = 1
          /\ xml_count' \in 0..MaxXml
          /\ mpc' = "process"
          /\ UNCHANGED exc
       \/ /\ exc' = <<"Directory not found">>
          /\ mpc' = "except"
          /\ UNCHANGED <<n_dirs, xml_count>>
    /\ UNCHANGED <<script, work_dir, idx, downloads_dir, download_count,
                   extract_count, main_records, table5, truncated, ins_i, fb,
                   total_inserted, sent, rm_failed>>
    /\ UNCHANGED mainOthers

\* ndc_duns_data = traverse_xmls_and_extract_data(xml_dir);
\* if ndc_duns_data: insert_to_supabase(ndc_duns_data)
Zip5Traverse ==
    /\ script = "zip5" /\ mpc = "process"
    /\ \E recs \in RecordLists :
           /\ xml_count = 0 => recs = <<>>
           /\ main_records' = recs
           /\ mpc' = IF recs # <<>> THEN "insert" ELSE "cleanup"
    /\ UNCHANGED <<script, work_dir, idx, downloads_dir, download_count,
                   extract_count, n_dirs, xml_count, table5, truncated, ins_i,
                   fb, total_inserted, sent, exc, rm_failed>>
    /\ UNCHANGED mainOthers

\* zip5.py: except Exception: try: cleanup_working_directory(...)
\* except: logger.warning(...); raise
Zip5ExceptCleanup ==
    /\ script = "zip5" /\ mpc = "except"
    /\ mpc' = "raised"
    /\ \/ /\ work_dir' = FALSE
          /\ UNCHANGED rm_failed
       \/ /\ work_dir                   \* shutil.rmtree raises: swallowed
          /\ work_dir' = work_dir
          /\ rm_failed' = TRUE
    /\ UNCHANGED <<script, idx, downloads_dir, download_count, extract_count,
                   n_dirs, xml_count, main_records, table5, truncated, ins_i,
                   fb, total_inserted, sent, exc>>
    /\ UNCHANGED mainOthers

MainNext ==
    \/ SetupWorkDirectory
    \/ DownloadFile
    \/ DownloadReturn
    \/ ExtractMainZip
    \/ ExtractReturn
    \/ FindAllPrescriptionDirectories
    \/ ExtractPrescriptionZips
    \/ ProcessAllXmlFiles
    \/ TruncateTable5
    \/ InsertBatch
    \/ InsertOne
    \/ InsertReturn
    \/ Cleanup
    \/ ExceptCleanup
    \/ Zip5Mkdir
    \/ Zip5Download
    \/ Zip5ExtractMainZip
    \/ Zip5ExtractNestedZips
    \/ Zip5Traverse
    \/ Zip5ExceptCleanup

\* the start of MainSpec: the other parts are not running
MainInit == MainEntry /\ ExtractIdle /\ JoinIdle /\ ZipIdle /\ ConcIdle /\ GenIdle

MainSpec == MainInit /\ [][MainNext]_vars

\* main has terminated: it returned or an exception left it
Terminated == mpc \in {"done", "raised"}

----------------------------------------------------------------------------
(* Claims about the orchestration *)

\* truncate_table5 has returned and nothing was inserted since
AfterTruncate == truncated # "none" /\ sent = <<>>

\* C15: truncate_table5, when it returns True, has deleted every existing
\* row of table5, including rows whose ndc is null: after the call table5
\* is empty.
C15_TruncateEmpties ==
    (AfterTruncate /\ truncated = "True") => table5 = <<>>

\* insert_to_supabase was called with the records and has returned
InsertReturned ==
    main_records # <<>> /\ mpc \in {"cleanup", "done", "except", "raised"}

\* the requests of a kind that carried record k
Requests(kind, k) ==
    {n \in 1..Len(sent) : sent[n].kind = kind /\ sent[n].lo <= k /\ k <= sent[n].hi}

\* the first and the last record of the batch record k belongs to
BatchLo(k) == ((k - 1) \div BatchSize) * BatchSize + 1
BatchHi(k) == Min(BatchLo(k) + BatchSize - 1, Len(main_records))

\* C19: insert_to_supabase splits the records into consecutive batches of
\* at most batch_size and submits every record: each record is sent once in
\* its batch and, if and only if that batch insert fails, once more
\* individually; no failure keeps the remaining records and batches from
\* being attempted, and no insertion failure raises out of the function.
C19_EveryRecordSent ==
    InsertReturned =>
        /\ \A k \in 1..Len(main_records) :
               /\ Cardinality(Requests("batch", k)) = 1
               /\ \A n \in Requests("batch", k) :
                      /\ sent[n].lo = BatchLo(k) /\ sent[n].hi = BatchHi(k)
                      /\ sent[n].hi - sent[n].lo + 1 <= BatchSize
                      /\ Cardinality(Requests("one", k)) = IF sent[n].ok THEN 0 ELSE 1
                      /\ \A o \in Requests("one", k) : n < o
        /\ \A n \in 1..Len(sent) : sent[n].lo >= 1 /\ sent[n].hi <= Len(main_records)
        /\ \A n, o \in 1..Len(sent) :
               (n < o /\ sent[n].kind = sent[o].kind) => sent[n].hi < sent[o].lo
        /\ \A n \in 1..Len(exc) : exc[n] \in {"cleanup: rmtree", "handler: rmtree"}

\* a first batch that failed, with a record that failed again on its own,
\* and a later batch that went through
C19_Witness ==
    /\ InsertReturned
    /\ Len(main_records) > BatchSize
    /\ \E n, o, q \in 1..Len(sent) :
           /\ n < o /\ o < q
           /\ sent[n].kind = "batch" /\ ~sent[n].ok
           /\ sent[o].kind = "one" /\ ~sent[o].ok /\ sent[o].lo < sent[n].hi
           /\ sent[q].kind = "batch" /\ sent[q].ok

\* setup_work_directory / working_path.mkdir went through
SetUp == mpc # "start" /\ (exc = <<>> \/ exc[1] # "setup: rmtree")

FirstInsert == script = "daily" /\ mpc = "insert" /\ sent = <<>>

\* how often a row occurs in a list of rows
Occurrences(row, rows) == Cardinality({n \in 1..Len(rows) : rows[n] = row})

\* C23: in main of daily_automation.py insertion starts from a fresh
\* table: when insert_to_supabase issues its first insert, truncate_table5
\* has run and table5 holds no row of a previous run, so after a run that
\* completes table5 contains only records extracted in this run.
C23_FreshTable ==
    /\ FirstInsert => (truncated # "none" /\ table5 = <<>>)
    /\ (script = "daily" /\ mpc = "done") =>
           \A n \in 1..Len(table5) :
               Occurrences(table5[n], table5) <= Occurrences(table5[n], main_records)

\* main failed in one of the steps 1-6: an exception other than that of
\* the cleanup of step 9 reached the handler
FailedBeforeTruncate ==
    /\ script = "daily"
    /\ mpc \in {"except", "raised"}
    /\ exc[1] # "cleanup: rmtree"

\* C24: if main of daily_automation.py fails in any of the steps 1-6,
\* table5 is left unchanged: neither truncate_table5 nor insert_to_supabase
\* is called in that run, and no step before them writes to table5.
C24_FailureLeavesTable ==
    /\ [](FailedBeforeTruncate =>
              (truncated = "none" /\ sent = <<>> /\ total_inserted = 0))
    /\ [][(script = "daily" /\ table5' # table5) =>
              (mpc \in {"truncate", "insert"} /\ main_records # <<>>)]_vars

\* a run that found nothing to extract, over a table with rows
C24_Witness ==
    /\ FailedBeforeTruncate /\ mpc = "raised"
    /\ exc = <<"All extractions failed">>
    /\ table5 # <<>>

\* the parts whose download completed without an exception
Completed == {f \in downloads_dir : f[2] = "zip"}

\* download_fda_data has returned and main has looked at the count
AfterDownload ==
    script = "daily" /\ SetUp /\ mpc \notin {"start", "download"}

\* C25: download_fda_data attempts all 5 files in list order whatever
\* happened to the earlier ones, and returns the number of files whose
\* download completed without an exception, between 0 and 5; main aborts
\* with "All downloads failed" exactly when that number is 0 and otherwise
\* continues with the parts it has.
C25_DownloadCount ==
    /\ [](script = "daily" =>
              /\ download_count = Cardinality(Completed)
              /\ download_count \in 0..NumParts
              /\ mpc = "download" => \A f \in downloads_dir : f[1] <= idx)
    /\ [](AfterDownload =>
              (download_count = 0 <=>
                   (exc # <<>> /\ exc[1] = "All downloads failed")))
    /\ [][(script = "daily" /\ mpc = "download") =>
              \/ /\ mpc' = "download"          \* the next file of the list
                 /\ idx' = idx + 1
                 /\ \A f \in downloads_dir' \ downloads_dir : f[1] = idx + 1
              \/ /\ idx = NumParts             \* all 5 were attempted
                 /\ downloads_dir' = downloads_dir
                 /\ IF download_count = 0
                    THEN mpc' = "except" /\ exc' = <<"All downloads failed">>
                    ELSE mpc' = "extract" /\ exc' = <<>>]_vars

\* three of the five downloads completed, one broke off while writing, and
\* main went on to the extraction
C25_Witness ==
    /\ script = "daily" /\ mpc = "extract"
    /\ download_count = 3
    /\ <<1, "zip">> \notin downloads_dir
    /\ <<5, "zip">> \in downloads_dir
    /\ \E f \in downloads_dir : f[2] = "partial"

----------------------------------------------------------------------------
(* modify_finaldatabase.py: joining table5 and table7 on duns *)

\* the most rows table5 and table7 hold when the join runs
MaxRows5 == 3
MaxRows7 == 2

Duns12 == <<"1", "2">>
Duns34 == <<"3", "4">>

\* rows of table5, as insert_to_supabase writes them
Table5Rows ==
    {RecA,
     [ndc |-> <<"3", "-">>, duns |-> Duns12, ndc_digits |-> <<"3">>],
     RecB,
     RecC,
     [ndc |-> <<"5", "-">>, duns |-> <<>>, ndc_digits |-> <<"5">>]}

\* rows of table7
Table7Rows ==
    {[duns |-> Duns12, fei |-> <<"7">>, address |-> <<"a">>],
     [duns |-> Duns12, fei |-> <<"8">>, address |-> <<"b">>],
     [duns |-> None, fei |-> <<"9">>, address |-> None]}

JoinEntry ==
    /\ table5 \in SeqsUpTo(Table5Rows, MaxRows5)
    /\ table7 \in SeqsUpTo(Table7Rows, MaxRows7)
    /\ joon_ndc_data \in {<<>>, <<[ndc |-> None, ndc_digits |-> None,
                                   fei |-> <<"7">>, address |-> None,
                                   duns |-> Duns34]>>}
    /\ jpc = "start"
    /\ table5_data = <<>>
    /\ table7_data = <<>>
    /\ offset = 0
    /\ table7_by_duns = <<>>
    /\ jk = 0
    /\ matched_records = <<>>
    /\ jresult = "none"
    \* the other variables of main
    /\ script = "join"
    /\ mpc = "idle"
    /\ work_dir = FALSE
    /\ idx = 0
    /\ downloads_dir = {}
    /\ download_count = 0
    /\ extract_count = 0
    /\ n_dirs = 0
    /\ xml_count = 0
    /\ main_records = <<>>
    /\ truncated = "none"
    /\ ins_i = 0
    /\ fb = 0
    /\ total_inserted = 0
    /\ sent = <<>>
    /\ exc = <<>>
    /\ rm_failed = FALSE

\* select("*").range(lo, hi): the rows lo..hi of the table, counted from 0
Range(table, lo, hi) == SubSeq(table, lo + 1, Min(hi + 1, Len(table)))

\* truncate_joon_ndc_data: delete().neq('id', 0), every id being 1 or more;
\* main ignores what it returns
TruncateJoonNdcData ==
    /\ jpc = "start"
    /\ \/ joon_ndc_data' = <<>>
       \/ joon_ndc_data' = joon_ndc_data      \* execute() raises
    /\ jpc' = "fetch5"
    /\ UNCHANGED <<table7, table5_data, table7_data, offset, table7_by_duns,
                   jk, matched_records, jresult>>
    /\ UNCHANGED joinOthers

\* one turn of the while loop that fetches table5
FetchTable5 ==
    /\ jpc = "fetch5"
    /\ LET batch == Range(table5, offset, offset + BatchSize - 1) IN
           IF batch = <<>>
           THEN /\ jpc' = "fetch7"
                /\ offset' = 0
                /\ UNCHANGED table5_data
           ELSE /\ table5_data' = table5_data \o batch
                /\ IF Len(batch) < BatchSize
                   THEN jpc' = "fetch7" /\ offset' = 0
                   ELSE jpc' = jpc /\ offset' = offset + BatchSize
    /\ UNCHANGED <<table7, joon_ndc_data, table7_data, table7_by_duns, jk,
                   matched_records, jresult>>
    /\ UNCHANGED joinOthers

\* one turn of the while loop that fetches table7
FetchTable7 ==
    /\ jpc = "fetch7"
    /\ LET batch == Range(table7, offset, offset + BatchSize - 1) IN
           IF batch = <<>>
           THEN /\ jpc' = "index"
                /\ UNCHANGED <<table7_data, offset>>
           ELSE /\ table7_data' = table7_data \o batch
                /\ offset' = offset + BatchSize
                /\ jpc' = IF Len(batch) < BatchSize THEN "index" ELSE jpc
    /\ UNCHANGED <<table7, joon_ndc_data, table5_data, table7_by_duns, jk,
                   matched_records, jresult>>
    /\ UNCHANGED joinOthers

\* table7_by_duns after table7_by_duns[duns].append(record)
DictAppend(dict, key, record) ==
    [d \in DOMAIN dict \cup {key} |->
        IF d = key
        THEN Append(IF key \in DOMAIN dict THEN dict[key] ELSE <<>>, record)
        ELSE dict[d]]

IndexTable7_KeepsLast ==
    /\ jpc = "index" /\ jk < Len(table7_data)
    /\ LET record == table7_data[jk + 1] IN
           table7_by_duns' =
               IF Truthy(record.duns)
               THEN [d \in DOMAIN table7_by_duns \cup {record.duns} |->
                        IF d = record.duns THEN <<record>> ELSE table7_by_duns[d]]
               ELSE table7_by_duns
    /\ jk' = jk + 1
    /\ UNCHANGED <<table7, joon_ndc_data, jpc, table5_data, table7_data, offset,
                   matched_records, jresult>>
    /\ UNCHANGED joinOthers

\* for record in table7_data: if duns: table7_by_duns[duns].append(record)
IndexTable7 ==
    /\ jpc = "index" /\ jk < Len(table7_data)
    /\ LET record == table7_data[jk + 1] IN
           table7_by_duns' =
               IF Truthy(record.duns)
               THEN DictAppend(table7_by_duns, record.duns, record)
               ELSE table7_by_duns
    /\ jk' = jk + 1
    /\ UNCHANGED <<table7, joon_ndc_data, jpc, table5_data, table7_data, offset,
                   matched_records, jresult>>
    /\ UNCHANGED joinOthers

\* the loop over table7_data ends: matched_records = []
IndexTable7Done ==
    /\ jpc = "index" /\ jk = Len(table7_data)
    /\ jpc' = "join"
    /\ jk' = 0
    /\ matched_records' = <<>>
    /\ UNCHANGED <<table7, joon_ndc_data, table5_data, table7_data, offset,
                   table7_by_duns, jresult>>
    /\ UNCHANGED joinOthers

\* the joined record of a table5 record and a table7 record
Joined(t5_record, t7_record) ==
    [ndc |-> t5_record.ndc, ndc_digits |-> t5_record.ndc_digits,
     fei |-> t7_record.fei, address |-> t7_record.address,
     duns |-> t5_record.duns]

\* the records the inner loop appends for one table5 record
RECURSIVE JoinedWith(_, _)
JoinedWith(t5_record, t7_records) ==
    IF t7_records = <<>> THEN <<>>
    ELSE <<Joined(t5_record, Head(t7_records))>>
             \o JoinedWith(t5_record, Tail(t7_records))

\* for t5_record in table5_data: if duns and duns in table7_by_duns
JoinT5Record ==
    /\ jpc = "join" /\ jk < Len(table5_data)
    /\ LET t5_record == table5_data[jk + 1]
           duns == t5_record.duns
       IN  matched_records' =
               IF Truthy(duns) /\ duns \in DOMAIN table7_by_duns
               THEN matched_records \o JoinedWith(t5_record, table7_by_duns[duns])
               ELSE matched_records
    /\ jk' = jk + 1
    /\ UNCHANGED <<table7, joon_ndc_data, jpc, table5_data, table7_data, offset,
                   table7_by_duns, jresult>>
    /\ UNCHANGED joinOthers

\* the loop over table5_data ends; if len(matched_records) == 0: return True
JoinDone ==
    /\ jpc = "join" /\ jk = Len(table5_data)
    /\ jk' = 0
    /\ IF Len(matched_records) = 0
       THEN jresult' = "True" /\ jpc' = "done"
       ELSE jresult' = jresult /\ jpc' = "insert"
    /\ UNCHANGED <<table7, joon_ndc_data, table5_data, table7_data, offset,
                   table7_by_duns, matched_records>>
    /\ UNCHANGED joinOthers

\* supabase.table("joon_ndc_data").insert(batch).execute()
InsertMatched ==
    /\ jpc = "insert" /\ jk < Len(matched_records)
    /\ joon_ndc_data' = joon_ndc_data \o
           SubSeq(matched_records, jk + 1, Min(jk + BatchSize, Len(matched_records)))
    /\ jk' = jk + BatchSize
    /\ UNCHANGED <<table7, jpc, table5_data, table7_data, offset,
                   table7_by_duns, matched_records, jresult>>
    /\ UNCHANGED joinOthers

\* the range is exhausted: return True
InsertMatchedReturn ==
    /\ jpc = "insert" /\ jk >= Len(matched_records)
    /\ jresult' = "True"
    /\ jpc' = "done"
    /\ UNCHANGED <<table7, joon_ndc_data, table5_data, table7_data, offset,
                   table7_by_duns, jk, matched_records>>
    /\ UNCHANGED joinOthers

\* a request raises: except Exception: return False
JoinExcept ==
    /\ \/ jpc = "fetch5"
       \/ jpc = "fetch7"
       \/ jpc = "insert" /\ jk < Len(matched_records)
    /\ jresult' = "False"
    /\ jpc' = "done"
    /\ UNCHANGED <<table7, joon_ndc_data, table5_data, table7_data, offset,
                   table7_by_duns, jk, matched_records>>
    /\ UNCHANGED joinOthers

JoinNext ==
    \/ TruncateJoonNdcData
    \/ FetchTable5
    \/ FetchTable7
    \/ IndexTable7
    \/ IndexTable7Done
    \/ JoinT5Record
    \/ JoinDone
    \/ InsertMatched
    \/ InsertMatchedReturn
    \/ JoinExcept

\* the start of JoinSpec: the other parts are not running
JoinInit == JoinEntry /\ ExtractIdle /\ ZipIdle /\ ConcIdle /\ GenIdle

JoinSpec == JoinInit /\ [][JoinNext]_vars

----------------------------------------------------------------------------
(* Claims about the join *)

\* insert_matched_data_to_joon_ndc_data has built matched_records
JoinBuilt ==
    \/ jpc = "insert"
    \/ jpc = "done" /\ (jresult = "True" \/ matched_records # <<>>)

Count5(d) == Cardinality({a \in 1..Len(table5) : table5[a].duns = d})
Count7(d) == Cardinality({b \in 1..Len(table7) : table7[b].duns = d})

\* the non-empty duns values of table5
DunsValues == {table5[a].duns : a \in {x \in 1..Len(table5) : Truthy(table5[x].duns)}}

RECURSIVE SumProducts(_)
SumProducts(S) ==
    IF S = {} THEN 0
    ELSE LET d == CHOOSE x \in S : TRUE
         IN  Count5(d) * Count7(d) + SumProducts(S \ {d})

\* the pairs (table5 row, table7 row) with equal non-empty duns
MatchingPairs ==
    {pr \in (1..Len(table5)) \X (1..Len(table7)) :
        /\ Truthy(table5[pr[1]].duns)
        /\ table5[pr[1]].duns = table7[pr[2]].duns}

\* C16: insert_matched_data_to_joon_ndc_data builds exactly one joined row
\* for every pair (table5 row, table7 row) with equal non-empty duns, so
\* there are as many as the sum over duns values d of count5(d) * count7(d);
\* each carries ndc and ndc_digits of the table5 row and fei and address of
\* the table7 row; table5 rows with null duns or without a match in table7
\* contribute none.
C16_JoinOnDuns ==
    JoinBuilt =>
        /\ Len(matched_records) = SumProducts(DunsValues)
        /\ Len(matched_records) = Cardinality(MatchingPairs)
        /\ \A v \in {matched_records[n] : n \in 1..Len(matched_records)}
                    \cup {Joined(table5[pr[1]], table7[pr[2]]) : pr \in MatchingPairs} :
               Cardinality({n \in 1..Len(matched_records) : matched_records[n] = v})
                   = Cardinality({pr \in MatchingPairs :
                                     Joined(table5[pr[1]], table7[pr[2]]) = v})

\* three table5 rows and two table7 rows of one duns give six joined rows
C16_Witness ==
    /\ JoinBuilt
    /\ Len(table5) = 3 /\ Count5(Duns12) = 3
    /\ Len(table7) = 2 /\ Count7(Duns12) = 2
    /\ Len(matched_records) = 6

----------------------------------------------------------------------------
(* extract_prescription_zips of daily_automation.py *)

\* the most prescription directories handed to extract_prescription_zips
MaxDirs == 2

\* an XML inside a ZIP: the folder it lies in and its file name
XmlRootX == [folder |-> <<>>, name |-> <<"x">>]
XmlSubX == [folder |-> <<"s">>, name |-> <<"x">>]
XmlRootY == [folder |-> <<>>, name |-> <<"y">>]

\* what a ZIP file may hold; a bad one makes ZipFile raise BadZipFile
ZipContents ==
    {[bad |-> TRUE, xmls |-> <<>>],
     [bad |-> FALSE, xmls |-> <<XmlRootX>>],
     [bad |-> FALSE, xmls |-> <<XmlRootX, XmlSubX>>],
     [bad |-> FALSE, xmls |-> <<XmlRootX, XmlRootY>>]}

Zip(stem, c) == [stem |-> stem, bad |-> c.bad, xmls |-> c.xmls]

\* prescription_dir.glob("*.zip"): files of distinct names
ZipLists ==
    {<<>>}
    \cup {<<Zip(<<"a">>, c)>> : c \in ZipContents}
    \cup {<<Zip(<<"b">>, c)>> : c \in ZipContents}
    \cup {<<Zip(<<"a">>, c), Zip(<<"b">>, e)>> : c, e \in ZipContents}

\* the k-th prescription directory: EXTRACTED_DIR/<part k>/prescription
RECURSIVE DirLists(_)
DirLists(n) ==
    IF n = 0 THEN {<<>>}
    ELSE DirLists(n - 1)
         \cup {Append(ds, [parent |-> <<"p", Digit(n)>>, zip_files |-> zs]) :
                  ds \in {x \in DirLists(n - 1) : Len(x) = n - 1}, zs \in ZipLists}

ZipEntry ==
    /\ prescription_dirs \in DirLists(MaxDirs)
    /\ zpc = "dir"
    /\ zd = 0
    /\ zz = 0
    /\ zx = 0
    /\ xml_output_dir = <<>>
    /\ total_xml_count = 0
    /\ overwrote = FALSE

\* f"{prescription_dir.parent.name}_{zip_file.stem}_{xml_file.name}"
OutputFilename(prescription_dir, zip_file, xml_file) ==
    prescription_dir.parent \o <<"_">> \o zip_file.stem \o <<"_">> \o xml_file.name

ZipFiles == prescription_dirs[zd].zip_files
XmlFilesInZip == ZipFiles[zz].xmls

\* for dir_idx, prescription_dir in enumerate(prescription_dirs, 1)
ZipForDir ==
    /\ zpc = "dir" /\ zd < Len(prescription_dirs)
    /\ zd' = zd + 1
    /\ zz' = 0
    /\ zpc' = IF prescription_dirs[zd + 1].zip_files = <<>> THEN "dir" ELSE "zip"
    /\ UNCHANGED <<prescription_dirs, zx, xml_output_dir, total_xml_count,
                   overwrote>>
    /\ UNCHANGED zipOthers

\* for idx, zip_file in enumerate(zip_files, 1): extractall, rglob("*.xml")
ZipForZip ==
    /\ zpc = "zip" /\ zz < Len(ZipFiles)
    /\ zz' = zz + 1
    /\ zx' = 0
    /\ zpc' = IF ZipFiles[zz + 1].bad THEN "zip" ELSE "xml"
    /\ UNCHANGED <<prescription_dirs, zd, xml_output_dir, total_xml_count,
                   overwrote>>
    /\ UNCHANGED zipOthers

\* for xml_file in xml_files: shutil.copy2(xml_file, output_path)
ZipCopyXml ==
    /\ zpc = "xml" /\ zx < Len(XmlFilesInZip)
    /\ LET output_filename ==
               OutputFilename(prescription_dirs[zd], ZipFiles[zz], XmlFilesInZip[zx + 1])
       IN  /\ xml_output_dir' =
                  [f \in DOMAIN xml_output_dir \cup {output_filename} |->
                      IF f = output_filename THEN <<zd, zz, zx + 1>>
                      ELSE xml_output_dir[f]]
           /\ overwrote' = (overwrote \/ output_filename \in DOMAIN xml_output_dir)
    /\ total_xml_count' = total_xml_count + 1
    /\ zx' = zx + 1
    /\ UNCHANGED <<prescription_dirs, zpc, zd, zz>>
    /\ UNCHANGED zipOthers

\* the XMLs of the ZIP are copied: shutil.rmtree(temp_extract_path)
ZipXmlDone ==
    /\ zpc = "xml" /\ zx = Len(XmlFilesInZip)
    /\ zpc' = "zip"
    /\ UNCHANGED <<prescription_dirs, zd, zz, zx, xml_output_dir,
                   total_xml_count, overwrote>>
    /\ UNCHANGED zipOthers

\* except Exception: a copy raises and the rest of the ZIP is left out
ZipExcept ==
    /\ zpc = "xml" /\ zx < Len(XmlFilesInZip)
    /\ zpc' = "zip"
    /\ UNCHANGED <<prescription_dirs, zd, zz, zx, xml_output_dir,
                   total_xml_count, overwrote>>
    /\ UNCHANGED zipOthers

\* the ZIP files of the directory are done
ZipDirDone ==
    /\ zpc = "zip" /\ zz = Len(ZipFiles)
    /\ zpc' = "dir"
    /\ UNCHANGED <<prescription_dirs, zd, zz, zx, xml_output_dir,
                   total_xml_count, overwrote>>
    /\ UNCHANGED zipOthers

\* return total_xml_count
ZipReturn ==
    /\ zpc = "dir" /\ zd = Len(prescription_dirs)
    /\ zpc' = "done"
    /\ UNCHANGED <<prescription_dirs, zd, zz, zx, xml_output_dir,
                   total_xml_count, overwrote>>
    /\ UNCHANGED zipOthers

ZipNext ==
    \/ ZipForDir
    \/ ZipForZip
    \/ ZipCopyXml
    \/ ZipXmlDone
    \/ ZipExcept
    \/ ZipDirDone
    \/ ZipReturn

\* the start of ZipSpec: the other parts are not running
ZipInit == ZipEntry /\ ExtractIdle /\ MainIdle /\ JoinIdle /\ ConcIdle /\ GenIdle

ZipSpec == ZipInit /\ [][ZipNext]_vars

\* C17: extract_prescription_zips copies every XML to the central
\* xml_files directory under a unique name: no copy overwrites a file
\* copied earlier in the run, so the number of files in XML_OUTPUT_DIR
\* after the call equals the returned total XML count.
C17_UniqueNames ==
    /\ ~overwrote
    /\ zpc = "done" => Cardinality(DOMAIN xml_output_dir) = total_xml_count

----------------------------------------------------------------------------
(* process_xml_file called from several workers at once: each call has its *)
(* own locals, and a worker takes the next document when it is free        *)

\* the number of workers
NumWorkers == 2

Workers == 1..NumWorkers

\* the locals of a call that has not started
IdleFrame ==
    [pc |-> "idle", doc |-> 0, tree |-> <<>>, establishments |-> <<>>,
     count |-> 0, estab_list |-> <<>>, estab_data |-> <<>>, r |-> 0,
     records |-> <<>>]

\* a document of one establishment with one NDC code
DocC == << ShapeNode(3, [onPath |-> TRUE, perfs |-> <<1>>]) >>

\* the documents handed to the workers
WorkerFiles == {OkFile(DocA), OkFile(DocC), OkFile(<<>>), Malformed, Raising(DocA)}

ConcEntry ==
    /\ documents \in SeqsUpTo(WorkerFiles, MaxFiles)
    /\ next_doc = 0
    /\ frames = [w \in Workers |-> IdleFrame]
    /\ results = [j \in 1..Len(documents) |->
                     [done |-> FALSE, records |-> <<>>, overlap |-> FALSE]]

\* the document worker w is at
DocOf(w) == documents[frames[w].doc]

\* a free worker calls process_xml_file on the next document
WorkerCall(w) ==
    /\ frames[w].pc = "idle" /\ next_doc < Len(documents)
    /\ next_doc' = next_doc + 1
    /\ frames' = [frames EXCEPT ![w] =
                     [IdleFrame EXCEPT !.pc = "parse", !.doc = next_doc + 1]]
    /\ UNCHANGED <<documents, results>>
    /\ UNCHANGED concOthers

\* tree = etree.parse(str(xml_file), parser)
WorkerParse(w) ==
    /\ frames[w].pc = "parse"
    /\ LET f == frames[w] IN
           frames' = [frames EXCEPT ![w] =
               IF DocOf(w).status = "malformed"
               THEN [f EXCEPT !.pc = "except"]
               ELSE [f EXCEPT !.pc = "call", !.tree = DocOf(w).tree]]
    /\ UNCHANGED <<documents, next_doc, results>>
    /\ UNCHANGED concOthers

\* establishments2: count = 0, estab_list = [], the XPath of the fixed path
WorkerEstablishments2Enter(w) ==
    /\ frames[w].pc = "call"
    /\ LET f == frames[w] IN
           frames' = [frames EXCEPT ![w] =
               IF DocOf(w).status = "raises"
               THEN [f EXCEPT !.pc = "except"]
               ELSE [f EXCEPT !.pc = "estabs", !.count = 0,
                              !.estab_list = <<>>,
                              !.establishments = XPathEstablishments(f.tree)]]
    /\ UNCHANGED <<documents, next_doc, results>>
    /\ UNCHANGED concOthers

WorkerForEstab_SharedList(w) ==
    /\ frames[w].pc = "estabs"
    /\ frames[w].establishments # <<>>
    /\ frames[w].count < Len(frames[w].establishments)
    /\ LET f == frames[w]
           shared == frames[1].estab_list
                         \o EstabRecords(f.count + 1, f.establishments[f.count + 1])
       IN  frames' =
               [v \in Workers |->
                   IF v = w
                   THEN [f EXCEPT
                            !.count = f.count + 1,
                            !.estab_list = shared,
                            !.pc = IF f.count + 1 = Len(f.establishments)
                                   THEN "ret" ELSE "estabs"]
                   ELSE [frames[v] EXCEPT !.estab_list = shared]]
    /\ UNCHANGED <<documents, next_doc, results>>
    /\ UNCHANGED concOthers

\* if establishments: for estab in establishments: one iteration
WorkerForEstab(w) ==
    /\ frames[w].pc = "estabs"
    /\ frames[w].establishments # <<>>
    /\ frames[w].count < Len(frames[w].establishments)
    /\ LET f == frames[w] IN
           frames' = [frames EXCEPT ![w] =
               [f EXCEPT
                   !.count = f.count + 1,
                   !.estab_list = f.estab_list
                       \o EstabRecords(f.count + 1, f.establishments[f.count + 1]),
                   !.pc = IF f.count + 1 = Len(f.establishments)
                          THEN "ret" ELSE "estabs"]]
    /\ UNCHANGED <<documents, next_doc, results>>
    /\ UNCHANGED concOthers

\* else: no establishments found at all
WorkerNoEstab(w) ==
    /\ frames[w].pc = "estabs"
    /\ frames[w].establishments = <<>>
    /\ LET f == frames[w] IN
           frames' = [frames EXCEPT ![w] =
               [f EXCEPT !.estab_list = Append(f.estab_list, NoEstabRecord),
                         !.pc = "ret"]]
    /\ UNCHANGED <<documents, next_doc, results>>
    /\ UNCHANGED concOthers

\* return estab_list; estab_data = establishments2(tree); records = []
WorkerEstablishments2Return(w) ==
    /\ frames[w].pc = "ret"
    /\ LET f == frames[w] IN
           frames' = [frames EXCEPT ![w] =
               [f EXCEPT !.estab_data = f.estab_list, !.r = 0,
                         !.records = <<>>, !.pc = "rows"]]
    /\ UNCHANGED <<documents, next_doc, results>>
    /\ UNCHANGED concOthers

\* for row in estab_data: one iteration
WorkerRow(w) ==
    /\ frames[w].pc = "rows" /\ frames[w].r < Len(frames[w].estab_data)
    /\ LET f == frames[w] IN
           frames' = [frames EXCEPT ![w] =
               [f EXCEPT !.r = f.r + 1,
                         !.records = f.records \o ConvertRow(f.estab_data[f.r + 1])]]
    /\ UNCHANGED <<documents, next_doc, results>>
    /\ UNCHANGED concOthers

\* except Exception: return []
WorkerExcept(w) ==
    /\ frames[w].pc = "except"
    /\ LET f == frames[w] IN
           frames' = [frames EXCEPT ![w] =
               [f EXCEPT !.records = <<>>, !.pc = "returned"]]
    /\ UNCHANGED <<documents, next_doc, results>>
    /\ UNCHANGED concOthers

\* return records
WorkerRowsDone(w) ==
    /\ frames[w].pc = "rows" /\ frames[w].r = Len(frames[w].estab_data)
    /\ LET f == frames[w] IN
           frames' = [frames EXCEPT ![w] = [f EXCEPT !.pc = "returned"]]
    /\ UNCHANGED <<documents, next_doc, results>>
    /\ UNCHANGED concOthers

\* the caller collects what the call returned; the locals of the call are gone
WorkerCollect(w) ==
    /\ frames[w].pc = "returned"
    /\ results' = [results EXCEPT ![frames[w].doc] =
                      [done |-> TRUE, records |-> frames[w].records,
                       overlap |-> \E v \in Workers \ {w} :
                                       frames[v].pc \notin {"idle", "parse"}]]
    /\ frames' = [frames EXCEPT ![w] = IdleFrame]
    /\ UNCHANGED <<documents, next_doc>>
    /\ UNCHANGED concOthers

ConcNext ==
    \E w \in Workers :
        \/ WorkerCall(w)
        \/ WorkerParse(w)
        \/ WorkerEstablishments2Enter(w)
        \/ WorkerForEstab(w)
        \/ WorkerNoEstab(w)
        \/ WorkerEstablishments2Return(w)
        \/ WorkerRow(w)
        \/ WorkerExcept(w)
        \/ WorkerRowsDone(w)
        \/ WorkerCollect(w)

\* the start of ConcSpec: the other parts are not running
ConcInit == ConcEntry /\ ExtractIdle /\ MainIdle /\ JoinIdle /\ ZipIdle /\ GenIdle

ConcSpec == ConcInit /\ [][ConcNext]_vars

\* the records of a document when it is processed on its own
RECURSIVE AllEstabRecords(_, _)
AllEstabRecords(ests, k) ==
    IF k > Len(ests) THEN <<>>
    ELSE EstabRecords(k, ests[k]) \o AllEstabRecords(ests, k + 1)

RECURSIVE ConvertRows(_)
ConvertRows(rows) ==
    IF rows = <<>> THEN <<>> ELSE ConvertRow(Head(rows)) \o ConvertRows(Tail(rows))

SequentialRecords(file) ==
    IF file.status # "ok" THEN <<>>
    ELSE LET ests == XPathEstablishments(file.tree)
         IN  ConvertRows(IF ests = <<>> THEN <<NoEstabRecord>>
                         ELSE AllEstabRecords(ests, 1))

\* C20: extraction calls share no mutable state: whatever the interleaving
\* of concurrent process_xml_file calls and whichever documents a worker
\* processed before, the call on a document returns the records the
\* document yields on its own, so the collected results are the multiset a
\* sequential run produces.
C20_NoSharedState ==
    \A j \in 1..Len(documents) :
        results[j].done => results[j].records = SequentialRecords(documents[j])

\* two documents with records were processed by calls that overlapped
C20_Witness ==
    /\ Len(documents) = 2
    /\ \A j \in 1..2 : results[j].done /\ results[j].records # <<>>
    /\ documents[1] # documents[2]
    /\ \E j \in 1..2 : results[j].overlap

----------------------------------------------------------------------------
(* The Activity Classifier (specification section 4.1) *)

LowerCase == <<"a", "b", "c", "d", "e", "f", "g", "h", "i", "j", "k", "l", "m", "n",
              "o", "p", "q", "r", "s", "t", "u", "v", "w", "x", "y", "z">>

UpperCase == <<"A", "B", "C", "D", "E", "F", "G", "H", "I", "J", "K", "L", "M", "N",
              "O", "P", "Q", "R", "S", "T", "U", "V", "W", "X", "Y", "Z">>

\* one character, upper-cased: only the letters a..z change
UpperChar(c) ==
    IF \E n \in 1..Len(LowerCase) : LowerCase[n] = c
    THEN UpperCase[CHOOSE n \in 1..Len(LowerCase) : LowerCase[n] = c]
    ELSE c

\* "uppercase the label"
upper(s) == [n \in 1..Len(s) |-> UpperChar(s[n])]

\* "appears as a substring": scan the start positions from k on
RECURSIVE FindFrom(_, _, _)
FindFrom(sub, s, k) ==
    IF k + Len(sub) - 1 > Len(s) THEN FALSE
    ELSE IF SubSeq(s, k, k + Len(sub) - 1) = sub THEN TRUE
    ELSE FindFrom(sub, s, k + 1)

\* the fixed exclusion vocabulary, in the order the section lists it
ExclusionVocabulary ==
    << <<"A", "P", "I">>,
       <<"R", "E", "P", "A", "C", "K">>,
       <<"R", "E", "L", "A", "B", "E", "L">>,
       <<"P", "A", "C", "K">>,
       <<"L", "A", "B", "E", "L">>,
       <<"A", "N", "A", "L", "Y", "S", "I", "S">>,
       <<"C", "O", "M", "P", "O", "U", "N", "D">> >>

\* "the exclusion check only needs one match to reject"
RECURSIVE AnyExcluded(_, _)
AnyExcluded(text, k) ==
    IF k > Len(ExclusionVocabulary) THEN FALSE
    ELSE IF FindFrom(ExclusionVocabulary[k], text, 1) THEN TRUE
    ELSE AnyExcluded(text, k + 1)

\* the classifier that compares the label as it is written
ActivityClassifier_CaseSensitive(display) ==
    IF display = None THEN FALSE
    ELSE IF ~FindFrom(MANUFACTURE, display, 1) THEN FALSE
         ELSE ~AnyExcluded(display, 1)

\* given an activity's display label, TRUE iff it denotes manufacturing
ActivityClassifier(display) ==
    IF display = None THEN FALSE
    ELSE LET text == upper(display)
         IN  IF ~FindFrom(MANUFACTURE, text, 1) THEN FALSE
             ELSE ~AnyExcluded(text, 1)

\* how a display label may begin
LabelHeads ==
    { <<>>, MANUFACTURE, manufacture, Manufacture, PACK,
      <<"M", "A", "N", "U", "F", "A", "C", "T", "U", "R">>,
      <<"r", "e">> \o manufacture }

\* how a display label may go on
LabelTails ==
    { <<>>,
      <<" ", "A", "P", "I">>,
      <<" ", "a", "p", "i">>,
      <<" ", "R", "E", "P", "A", "C", "K">>,
      <<" ", "r", "e", "l", "a", "b", "e", "l">>,
      <<" ", "P", "A", "C", "K">>,
      <<" ", "L", "a", "b", "e", "l">>,
      <<" ", "A", "N", "A", "L", "Y", "S", "I", "S">>,
      <<" ", "c", "o", "m", "p", "o", "u", "n", "d", "i", "n", "g">>,
      <<" ", "c", "a", "p", "i", "t", "a", "l">>,
      <<"r">>,
      <<" ", "o", "f", " ", "t", "a", "b", "l", "e", "t", "s">>,
      <<"/", "p", "a", "c", "k">>,
      <<" ", "A", "P", " ", "I">> }

\* the display labels the classifier is given; None is an absent label
DisplayLabels ==
    {None} \cup {h \o t : h \in LabelHeads, t \in LabelTails}

\* a caller holds one display label
ClassEntry ==
    /\ act_label \in DisplayLabels
    /\ verdict = "none"

\* the caller applies the classifier to its label
Classify ==
    /\ verdict = "none"
    /\ verdict' = IF ActivityClassifier(act_label) THEN "true" ELSE "false"
    /\ UNCHANGED <<act_label, organizations, products, gpc, manufacturers,
                   gp, ndc_map, emits>>
    /\ UNCHANGED genOthers

ClassNext == Classify

\* the start of ClassSpec: the other parts are not running
ClassInit ==
    ClassEntry /\ ExtractIdle /\ MainIdle /\ JoinIdle /\ ZipIdle /\ ConcIdle
        /\ Gen1Idle

ClassSpec == ClassInit /\ [][ClassNext]_vars

\* sub occurs somewhere in s
HasSubstring(s, sub) ==
    \E a \in 1..(Len(s) + 1) : \E b \in 0..Len(s) : SubSeq(s, a, b) = sub

ExclusionTerms == {ExclusionVocabulary[k] : k \in 1..Len(ExclusionVocabulary)}

\* C22: the Activity Classifier returns true for a display label if and only
\* if the upper-cased label contains MANUFACTURE and contains none of API,
\* REPACK, RELABEL, PACK, LABEL, ANALYSIS, COMPOUND as a substring; an absent
\* label classifies as false, and so does "MANUFACTURE API".
C22_ClassifierIff ==
    verdict # "none" =>
        /\ verdict = "true" <=>
               /\ act_label # None
               /\ HasSubstring(upper(act_label), MANUFACTURE)
               /\ \A term \in ExclusionTerms :
                      ~HasSubstring(upper(act_label), term)
        /\ act_label \in {None, MANUFACTURE_API} => verdict = "false"

\* the label "MANUFACTURE API" has been classified
C22_Witness == act_label = MANUFACTURE_API /\ verdict = "false"

----------------------------------------------------------------------------
(* The Correlator, Algorithm Generation 1 (specification section 4.4) *)

\* the most ProductCandidates a document yields
MaxProducts == 3

\* the most OrganizationCandidates a document yields
MaxOrgs == 2

Ndc12 == <<"1", "-", "2">>

Ndc34 == <<"3", "-", "4">>

\* OrganizationCandidates: identifier, whether the authoring-organization
\* path found it, and the display labels of its nested activities
OrganizationCandidates ==
    { [identifier |-> Duns12, author |-> TRUE,  activities |-> <<>>],
      [identifier |-> Duns12, author |-> TRUE,  activities |-> <<manufacture>>],
      [identifier |-> Duns34, author |-> FALSE, activities |-> <<PACK, MANUFACTURE>>],
      [identifier |-> Duns34, author |-> FALSE, activities |-> <<MANUFACTURE_API>>],
      [identifier |-> Duns34, author |-> TRUE,  activities |-> <<PACK>>],
      [identifier |-> None,   author |-> FALSE, activities |-> <<Manufacture>>] }

\* ProductCandidates: the raw NDC and the related identifier, if any
ProductCandidates ==
    [ndc : {Ndc12, Ndc34}, relatedIdentifier : {None, Duns12, Duns34}]

\* the Organization Locator deduplicates by identifier when it is present
Deduplicated(orgs) ==
    \A a, b \in 1..Len(orgs) :
        (a # b /\ orgs[a].identifier # None) =>
            orgs[a].identifier # orgs[b].identifier

\* the authoring-organization path is the first strategy of the cascade
AuthorsFirst(orgs) ==
    \A a, b \in 1..Len(orgs) : (a < b /\ orgs[b].author) => orgs[a].author

\* a document has been located: its organizations and its products
Gen1Entry ==
    /\ organizations \in {orgs \in SeqsUpTo(OrganizationCandidates, MaxOrgs) :
                              Deduplicated(orgs) /\ AuthorsFirst(orgs)}
    /\ products \in SeqsUpTo(ProductCandidates, MaxProducts)
    /\ gpc = "start"
    /\ manufacturers = <<>>
    /\ gp = 0
    /\ ndc_map = <<>>
    /\ emits = <<>>

\* is_manufacturer: the classifier applied to any nested activity
is_manufacturer(org) ==
    \E k \in 1..Len(org.activities) : ActivityClassifier(org.activities[k])

IsAuthor(org) == org.author

\* restrict to is_manufacturer = true; if none exist, fall back to every
\* organization found via the authoring-organization path
SelectManufacturers ==
    /\ gpc = "start"
    /\ manufacturers' =
           IF SelectSeq(organizations, is_manufacturer) # <<>>
           THEN SelectSeq(organizations, is_manufacturer)
           ELSE SelectSeq(organizations, IsAuthor)
    /\ gp' = 1
    /\ gpc' = "products"
    /\ UNCHANGED <<act_label, verdict, organizations, products, ndc_map, emits>>
    /\ UNCHANGED genOthers

\* the manufacturer a ProductCandidate is mapped to: <<m>>, or <<>> to skip
ManufacturerFor(product) ==
    IF product.relatedIdentifier # None
    THEN LET same(m) == m.identifier = product.relatedIdentifier
             found == SelectSeq(manufacturers, same)
         IN  IF found = <<>> THEN <<>> ELSE <<found[1]>>
    ELSE IF manufacturers = <<>> THEN <<>> ELSE <<manufacturers[1]>>

OutputMapping(ndc, duns) ==
    [ndc |-> ndc, duns |-> duns, ndc_digits |-> ReplaceDash(ndc)]

\* an output that is a list: every emitted mapping is added to it
Store_Appends(mapping, entry) ==
    Append(mapping, entry)

\* the output is a mapping keyed by NDC: a later occurrence of an NDC
\* takes the place of the earlier one
Store(mapping, entry) ==
    IF \E n \in 1..Len(mapping) : mapping[n].ndc = entry.ndc
    THEN [n \in 1..Len(mapping) |->
              IF mapping[n].ndc = entry.ndc THEN entry ELSE mapping[n]]
    ELSE Append(mapping, entry)

\* one ProductCandidate: emit a mapping when a manufacturer with an
\* identifier is found for it (Generation 1 requires both NDC and DUNS)
CorrelateProduct ==
    /\ gpc = "products"
    /\ gp <= Len(products)
    /\ LET product == products[gp]
           m == ManufacturerFor(product)
       IN  IF m # <<>> /\ m[1].identifier # None
           THEN /\ ndc_map' = Store(ndc_map, OutputMapping(product.ndc, m[1].identifier))
                /\ emits' = Append(emits, OutputMapping(product.ndc, m[1].identifier))
           ELSE UNCHANGED <<ndc_map, emits>>
    /\ gp' = gp + 1
    /\ UNCHANGED <<act_label, verdict, organizations, products, gpc, manufacturers>>
    /\ UNCHANGED genOthers

\* every ProductCandidate has been seen: the mappings are returned
Gen1Return ==
    /\ gpc = "products"
    /\ gp > Len(products)
    /\ gpc' = "done"
    /\ UNCHANGED <<act_label, verdict, organizations, products, manufacturers,
                   gp, ndc_map, emits>>
    /\ UNCHANGED genOthers

Gen1Next ==
    \/ SelectManufacturers
    \/ CorrelateProduct
    \/ Gen1Return

\* the start of Gen1Spec: the other parts are not running
Gen1Init ==
    Gen1Entry /\ ExtractIdle /\ MainIdle /\ JoinIdle /\ ZipIdle /\ ConcIdle
        /\ ClassIdle

Gen1Spec == Gen1Init /\ [][Gen1Next]_vars

\* the positions of the emitted mappings that carry the NDC
EmitsOf(ndc) == {k \in 1..Len(emits) : emits[k].ndc = ndc}

LastEmitOf(ndc) == emits[CHOOSE k \in EmitsOf(ndc) : \A j \in EmitsOf(ndc) : j <= k]

\* C21: Generation 1 never emits two OutputMapping entries with the same
\* ndc for one document: its output is keyed by NDC (one entry for every
\* NDC a mapping was emitted for, and no other), and a later occurrence of
\* an NDC overwrites the earlier one (the entry is the last mapping emitted
\* for its NDC).
C21_OneMappingPerNdc ==
    /\ \A a, b \in 1..Len(ndc_map) : ndc_map[a].ndc = ndc_map[b].ndc => a = b
    /\ {ndc_map[n].ndc : n \in 1..Len(ndc_map)} = {emits[k].ndc : k \in 1..Len(emits)}
    /\ \A n \in 1..Len(ndc_map) : ndc_map[n] = LastEmitOf(ndc_map[n].ndc)

\* a document whose NDC was emitted for one manufacturer and then for
\* another: the output holds the later mapping only
C21_Witness ==
    /\ gpc = "done"
    /\ \E j, k \in 1..Len(emits) :
           /\ j < k
           /\ emits[j].ndc = emits[k].ndc
           /\ emits[j].duns # emits[k].duns
           /\ EmitsOf(emits[k].ndc) = {j, k}
           /\ \E n \in 1..Len(ndc_map) : ndc_map[n] = emits[k]
    /\ Len(ndc_map) < Len(emits)

====
